---- MODULE Spec2Model ----
(***************************************************************************)
(* A model of the node-tree document model of @ldesign/mindmap (MindNode), *)
(* of its JSON conversion and of its geometry cache, of the command        *)
(* history (CommandHistory) layered over the node tree, of the Viewport    *)
(* with its animated transitions, and of the EventBus.                     *)
(*                                                                         *)
(* The object heap is a sequence of node objects: a reference to a         *)
(* MindNode is its position in `heap`, and Null (0) is JavaScript's null.  *)
(* Objects are never freed: a detached node stays reachable through the    *)
(* references callers hold.                                                *)
(***************************************************************************)
EXTENDS Integers, Sequences, FiniteSets, TLC

VARIABLES
    heap,       \* Seq of MindNode objects
    idCounter,  \* how many ids generateId has handed out
    last,       \* the last call: what was called, on what, with what outcome
    ops,        \* number of calls made so far
    json,       \* the records toJSON produced, in order
    reads,      \* what the last read of rect / centerPoint returned
    history,    \* the CommandHistory object
    commands,   \* Seq of Command objects
    frames,     \* the calls of CommandHistory methods that have not returned yet
    track,      \* per command, the document before and after it was applied
    viewport,   \* the Viewport object
    raf,        \* the frame callbacks requestAnimationFrame holds
    now,        \* what Date.now() returns, in milliseconds
    bus         \* the EventBus object and the state of the handlers given to it

histVars == <<history, commands, frames, track>>

viewVars == <<viewport, raf, now, bus>>

vars == <<heap, idCounter, last, ops, json, reads, history, commands, frames, track,
          viewport, raf, now, bus>>

----------------------------------------------------------------------------
(* Bounds *)

MaxNodes == 4
MaxOps == 2
MaxCommands == 3
MaxFrames == 3

----------------------------------------------------------------------------
(* JavaScript values *)

Null == 0
Undefined == "undefined"

\* an object literal with no own keys
EmptyObj == [k \in {} |-> 0]

Has(obj, k) == k \in DOMAIN obj

\* `obj.k || dflt` for a string-valued key: "" and a missing key are falsy
OrString(obj, k, dflt) == IF Has(obj, k) /\ obj[k] # "" THEN obj[k] ELSE dflt

\* `obj.k || dflt` for a number-valued key: 0 and a missing key are falsy
OrNumber(obj, k, dflt) == IF Has(obj, k) /\ obj[k] # 0 THEN obj[k] ELSE dflt

\* `obj.k || false` for a boolean-valued key
OrFalse(obj, k) == Has(obj, k) /\ obj[k]

\* `obj.k || dflt` for an object- or array-valued key: only a missing key is falsy
OrObject(obj, k, dflt) == IF Has(obj, k) THEN obj[k] ELSE dflt

\* an optional argument: <<>> when omitted, <<v>> when given
Omitted == <<>>
Given(v) == <<v>>

----------------------------------------------------------------------------
(* helpers.ts, constants *)

\* The style keys the model keeps (two of the keys of NodeStyle).
DEFAULT_NODE_STYLE == [backgroundColor |-> "#ffffff", fontSize |-> 14]

\* Object.assign(result, style) for each style in turn, on a copy of the default
mergeStyle(a, b) ==
    LET assign(r, s) == [k \in DOMAIN r \cup DOMAIN s |->
                            IF k \in DOMAIN s THEN s[k] ELSE r[k]]
    IN assign(assign(DEFAULT_NODE_STYLE, a), b)

\* The n-th id generateId returns. Date.now() and Math.random() make two calls
\* return different strings; the counter stands for both.
generateId(n) == "node_" \o ToString(n)

\* deepClone(obj) for obj a string, number or boolean: typeof obj !== 'object',
\* so obj itself is returned
deepClonePrimitive(obj) == obj

\* deepClone(obj) for obj a plain object: a new object with a deepClone of the
\* value of every own key (the values the model keeps under a key are
\* primitives)
deepCloneObject(obj) == [key \in DOMAIN obj |-> deepClonePrimitive(obj[key])]

\* the literal the constructor falls back to for a missing or empty text
DefaultText == "new-node"

----------------------------------------------------------------------------
(* MindNode: constructor *)

RECURSIVE Construct(_, _, _)
RECURSIVE ConstructChildren(_, _, _, _, _)

\* new MindNode(data) run on heap h with c ids generated so far:
\* [heap, counter, ref] with ref the new object
Construct(h, c, data) ==
    LET gen  == ~(Has(data, "id") /\ data["id"] # "")
        this == Len(h) + 1
        obj  == [ id       |-> IF gen THEN generateId(c + 1) ELSE data["id"],
                  text     |-> OrString(data, "text", DefaultText),
                  children |-> <<>>,
                  parent   |-> Null,
                  style    |-> mergeStyle(DEFAULT_NODE_STYLE,
                                           OrObject(data, "style", EmptyObj)),
                  data     |-> OrObject(data, "data", EmptyObj),
                  expanded |-> ~(Has(data, "expanded") /\ data["expanded"] = FALSE),
                  selected |-> OrFalse(data, "selected"),
                  hidden   |-> OrFalse(data, "hidden"),
                  tags     |-> OrObject(data, "tags", <<>>),
                  type     |-> IF Has(data, "type") THEN data["type"] ELSE Undefined,
                  x        |-> OrNumber(data, "x", 0),
                  y        |-> OrNumber(data, "y", 0),
                  width    |-> OrNumber(data, "width", 0),
                  height   |-> OrNumber(data, "height", 0),
                  rectCache   |-> <<>>,
                  centerCache |-> <<>> ]
        h1   == Append(h, obj)
        c1   == IF gen THEN c + 1 ELSE c
    IN  IF Has(data, "children")
        THEN ConstructChildren(h1, c1, this, data["children"], 1)
        ELSE [heap |-> h1, counter |-> c1, ref |-> this]

\* data.children.map(childData => { child = new MindNode(childData);
\*                                  child.parent = this; return child })
ConstructChildren(h, c, this, kids, i) ==
    IF i > Len(kids)
    THEN [heap |-> h, counter |-> c, ref |-> this]
    ELSE LET r  == Construct(h, c, kids[i])
             h1 == [r.heap EXCEPT ![r.ref].parent = this,
                                  ![this].children = Append(@, r.ref)]
         IN  ConstructChildren(h1, r.counter, this, kids, i + 1)

\* the number of objects new MindNode(data) creates
RECURSIVE DataSize(_)
RECURSIVE DataSizeSum(_, _)
DataSize(data) ==
    1 + (IF Has(data, "children") THEN DataSizeSum(data["children"], 1) ELSE 0)
DataSizeSum(kids, i) ==
    IF i > Len(kids) THEN 0 ELSE DataSize(kids[i]) + DataSizeSum(kids, i + 1)

----------------------------------------------------------------------------
(* MindNode: structure *)

Refs(h) == 1 .. Len(h)

\* the first position at which m holds TRUE, 0 when there is none (where
\* JavaScript's indexOf and findIndex return -1)
FirstTrue(m) ==
    IF \E i \in 1 .. Len(m) : m[i]
    THEN CHOOSE i \in 1 .. Len(m) : m[i] /\ \A j \in 1 .. (i - 1) : ~m[j]
    ELSE 0

\* this.children.indexOf(child)
indexOf(s, child) == FirstTrue([i \in 1 .. Len(s) |-> s[i] = child])

\* this.children.findIndex(c => c.id === id)
findIndexById(h, s, id) == FirstTrue([i \in 1 .. Len(s) |-> h[s[i]].id = id])

\* s.splice(i0, 0, e) with i0 a 0-based position in 0 .. Len(s)
SpliceIn(s, i0, e) == SubSeq(s, 1, i0) \o <<e>> \o SubSeq(s, i0 + 1, Len(s))

\* s.splice(i, 1) with i the 1-based position of the element removed
SpliceOut(s, i) == SubSeq(s, 1, i - 1) \o SubSeq(s, i + 1, Len(s))

\* addChild as it would be if it took no notice of index
addChild_IgnoresIndex(h, this, child, index) ==
    LET h1 == [h EXCEPT ![child].parent = this]
    IN  [heap |-> [h1 EXCEPT ![this].children = Append(@, child)],
         ret  |-> child]

\* addChild(data: MindNode, index?): [heap, ret]
addChild(h, this, child, index) ==
    LET h1  == [h EXCEPT ![child].parent = this]
        len == Len(h1[this].children)
    IN  [heap |-> IF index # Omitted /\ index[1] >= 0 /\ index[1] <= len
                  THEN [h1 EXCEPT ![this].children = SpliceIn(@, index[1], child)]
                  ELSE [h1 EXCEPT ![this].children = Append(@, child)],
         ret  |-> child]

\* removeChild as it would be if it left the removed child's parent set
removeChild_KeepsParent(h, this, child) ==
    LET index == indexOf(h[this].children, child)
    IN  IF index # 0
        THEN [heap |-> [h EXCEPT ![this].children = SpliceOut(@, index)],
              ret  |-> TRUE]
        ELSE [heap |-> h, ret |-> FALSE]

\* removeChild(child: MindNode): [heap, ret]
removeChild(h, this, child) ==
    LET index == indexOf(h[this].children, child)
    IN  IF index # 0
        THEN LET removedChild == h[this].children[index]
                 h1 == [h EXCEPT ![removedChild].parent = Null]
             IN  [heap |-> [h1 EXCEPT ![this].children = SpliceOut(@, index)],
                  ret  |-> TRUE]
        ELSE [heap |-> h, ret |-> FALSE]

\* removeChild(child: string): [heap, ret]
removeChildById(h, this, id) ==
    LET index == findIndexById(h, h[this].children, id)
    IN  IF index # 0
        THEN LET removedChild == h[this].children[index]
                 h1 == [h EXCEPT ![removedChild].parent = Null]
             IN  [heap |-> [h1 EXCEPT ![this].children = SpliceOut(@, index)],
                  ret  |-> TRUE]
        ELSE [heap |-> h, ret |-> FALSE]

\* for (const child of this.children) child.parent = null
RECURSIVE ClearParents(_, _, _)
ClearParents(h, kids, i) ==
    IF i > Len(kids) THEN h
    ELSE ClearParents([h EXCEPT ![kids[i]].parent = Null], kids, i + 1)

\* removeAllChildren(): the heap afterwards
removeAllChildren(h, this) ==
    LET h1 == ClearParents(h, h[this].children, 1)
    IN  [h1 EXCEPT ![this].children = <<>>]

\* remove(): [heap, ret]
remove(h, this) ==
    IF h[this].parent # Null
    THEN removeChild(h, h[this].parent, this)
    ELSE [heap |-> h, ret |-> FALSE]

\* The loop of isDescendantOf from `current` on. It ends when the parent chain
\* reaches null or `node`; a chain that runs into a cycle not holding `node`
\* keeps it running for ever. A chain of more than Len(h) steps has entered a
\* cycle, so `fuel` = Len(h) decides it.
RECURSIVE ParentWalk(_, _, _, _)
ParentWalk(h, current, node, fuel) ==
    IF current = Null THEN "false"
    ELSE IF current = node THEN "true"
    ELSE IF fuel = 0 THEN "hangs"
    ELSE ParentWalk(h, h[current].parent, node, fuel - 1)

\* this.isDescendantOf(node): "true", "false" or "hangs" (the call never returns)
isDescendantOf(h, this, node) == ParentWalk(h, h[this].parent, node, Len(h))

\* moveTo(newParent, index?): [heap, outcome, ret]
moveTo(h, this, newParent, index) ==
    LET desc == IF newParent = this THEN "true"
                ELSE isDescendantOf(h, newParent, this)
    IN  IF desc = "hangs"
        THEN [heap |-> h, outcome |-> "hangs", ret |-> FALSE]
        ELSE IF desc = "true"
        THEN [heap |-> h, outcome |-> "returns", ret |-> FALSE]
        ELSE LET h1 == IF h[this].parent # Null
                       THEN removeChild(h, h[this].parent, this).heap
                       ELSE h
             IN  [heap    |-> addChild(h1, newParent, this, index).heap,
                  outcome |-> "returns",
                  ret     |-> TRUE]

----------------------------------------------------------------------------
(* MindNode: toJSON, fromJSON, clone *)

\* the nodes reachable from the nodes of `frontier` by following children
RECURSIVE ChildClosure(_, _, _)
ChildClosure(h, frontier, seen) ==
    LET next == UNION {{h[m].children[i] : i \in 1 .. Len(h[m].children)} :
                          m \in frontier}
        new  == next \ seen
    IN  IF new = {} THEN seen ELSE ChildClosure(h, new, seen \cup new)

\* get descendants(), as a set
Descendants(h, n) == ChildClosure(h, {n}, {})

\* toJSON() recurses for ever (until the call stack overflows, a RangeError)
\* exactly when a cycle of children is reachable from the node
ToJSONOverflows(h, n) ==
    \E m \in Descendants(h, n) \cup {n} : m \in Descendants(h, m)

RECURSIVE toJSON(_, _)

\* the children's records as they would be if collected in reverse order
RECURSIVE ChildrenToJSON_Reversed(_, _, _)
ChildrenToJSON_Reversed(h, kids, i) ==
    IF i > Len(kids) THEN <<>>
    ELSE ChildrenToJSON_Reversed(h, kids, i + 1) \o <<toJSON(h, kids[i])>>

\* this.children.map(child => child.toJSON())
RECURSIVE ChildrenToJSON(_, _, _)
ChildrenToJSON(h, kids, i) ==
    IF i > Len(kids) THEN <<>>
    ELSE <<toJSON(h, kids[i])>> \o ChildrenToJSON(h, kids, i + 1)

\* toJSON(), for a node from which no cycle of children is reachable
toJSON(h, this) ==
    LET o == h[this]
        base == [ id       |-> o.id,
                  text     |-> deepClonePrimitive(o.text),
                  style    |-> deepCloneObject(o.style),
                  expanded |-> o.expanded,
                  selected |-> o.selected,
                  hidden   |-> o.hidden,
                  tags     |-> [i \in 1 .. Len(o.tags) |-> o.tags[i]],
                  data     |-> deepCloneObject(o.data) ]
        type == IF o.type # Undefined /\ o.type # ""
                THEN [type |-> o.type] ELSE EmptyObj
        kids == IF Len(o.children) > 0
                THEN [children |-> ChildrenToJSON(h, o.children, 1)] ELSE EmptyObj
    IN  base @@ type @@ kids

\* MindNode.fromJSON(data): [heap, counter, ref]
fromJSON(h, c, data) == Construct(h, c, data)

\* `delete obj.k`
Delete(obj, k) == [j \in DOMAIN obj \ {k} |-> obj[j]]

\* the record clone() hands to the constructor
ClonedData(h, c, this, includeChildren) ==
    LET clonedData == toJSON(h, this)
        pruned == IF ~includeChildren THEN Delete(clonedData, "children")
                  ELSE clonedData
    IN  [pruned EXCEPT !["id"] = generateId(c + 1)]

\* clone(includeChildren): [heap, counter, ref]
clone(h, c, this, includeChildren) ==
    Construct(h, c + 1, ClonedData(h, c, this, includeChildren))

----------------------------------------------------------------------------
(* The tree: its construction and the calls a caller can make *)

\* the index arguments tried: none, below 0, in range, above any length
IndexArgs == {Omitted, Given(-1), Given(0), Given(1), Given(7)}

InitData ==
    { [id |-> "root", children |-> <<[id |-> "a"]>>],
      [id |-> "root", children |-> <<[id |-> "a"], [id |-> "b"]>>],
      [id |-> "root", children |-> <<[id |-> "a", children |-> <<[id |-> "b"]>>]>>] }

TreeData ==
    { [text |-> "t"],
      [id |-> "c"] }

IdArgs == {"a", "zz"}

\* the ids a record gives its nodes
RECURSIVE DataIds(_)
DataIds(data) ==
    (IF Has(data, "id") /\ data["id"] # "" THEN {data["id"]} ELSE {})
    \cup (IF Has(data, "children")
          THEN UNION {DataIds(data["children"][i]) :
                          i \in 1 .. Len(data["children"])}
          ELSE {})

\* The records callers pass name no id that is in use, so that two nodes
\* with one id are never the caller's doing.
NewIds(data) == DataIds(data) \cap {heap[n].id : n \in Refs(heap)} = {}

NoArg == <<>>

\* no CommandHistory has been constructed
NoHistory ==
    /\ history = [undoStack |-> <<>>, redoStack |-> <<>>,
                  maxStackSize |-> 0, isExecuting |-> FALSE]
    /\ commands = <<>>
    /\ frames = <<>>
    /\ track = <<>>

\* no Viewport has been constructed
NoViewport ==
    /\ viewport = <<>>
    /\ raf = <<>>
    /\ now = 0
    /\ bus = <<>>

Call(op, this, arg, index, outcome, ret) ==
    [op |-> op, this |-> this, arg |-> arg, index |-> index,
     outcome |-> outcome, ret |-> ret]

\* a call that never returns leaves the single thread of control inside it
Running == ops < MaxOps /\ last.outcome # "hangs"

Init ==
    /\ \E d \in InitData :
         LET r == Construct(<<>>, 0, d)
         IN  /\ heap = r.heap
             /\ idCounter = r.counter
             /\ last = Call("new", r.ref, NoArg, Omitted, "returns", r.ref)
    /\ ops = 0
    /\ json = <<>>
    /\ reads = <<>>
    /\ NoHistory
    /\ NoViewport

\* new MindNode(data)
NewNode ==
    /\ Running
    /\ \E d \in TreeData :
         /\ NewIds(d)
         /\ Len(heap) + DataSize(d) <= MaxNodes
         /\ LET r == Construct(heap, idCounter, d)
            IN  /\ heap' = r.heap
                /\ idCounter' = r.counter
                /\ last' = Call("new", r.ref, NoArg, Omitted, "returns", r.ref)
    /\ ops' = ops + 1
    /\ UNCHANGED <<json, reads>>
    /\ UNCHANGED histVars
    /\ UNCHANGED viewVars

\* p.addChild(data, index) with data a plain record
AddChildData ==
    /\ Running
    /\ \E p \in Refs(heap), d \in TreeData, index \in IndexArgs :
         /\ NewIds(d)
         /\ Len(heap) + DataSize(d) <= MaxNodes
         /\ LET r == Construct(heap, idCounter, d)
                a == addChild(r.heap, p, r.ref, index)
            IN  /\ heap' = a.heap
                /\ idCounter' = r.counter
                /\ last' = Call("addChildData", p, r.ref, index, "returns", a.ret)
    /\ ops' = ops + 1
    /\ UNCHANGED <<json, reads>>
    /\ UNCHANGED histVars
    /\ UNCHANGED viewVars

\* p.addChild(c, index) with c an existing MindNode
AddChildNode ==
    /\ Running
    /\ \E p \in Refs(heap), c \in Refs(heap), index \in IndexArgs :
         LET a == addChild(heap, p, c, index)
         IN  /\ heap' = a.heap
             /\ last' = Call("addChild", p, c, index, "returns", a.ret)
    /\ ops' = ops + 1
    /\ UNCHANGED <<idCounter, json, reads>>
    /\ UNCHANGED histVars
    /\ UNCHANGED viewVars

\* p.removeChild(c) with c a MindNode
RemoveChild ==
    /\ Running
    /\ \E p \in Refs(heap), c \in Refs(heap) :
         LET r == removeChild(heap, p, c)
         IN  /\ heap' = r.heap
             /\ last' = Call("removeChild", p, c, Omitted, "returns", r.ret)
    /\ ops' = ops + 1
    /\ UNCHANGED <<idCounter, json, reads>>
    /\ UNCHANGED histVars
    /\ UNCHANGED viewVars

\* p.removeChild(id) with id a string
RemoveChildById ==
    /\ Running
    /\ \E p \in Refs(heap), id \in IdArgs :
         LET r == removeChildById(heap, p, id)
         IN  /\ heap' = r.heap
             /\ last' = Call("removeChildById", p, id, Omitted, "returns", r.ret)
    /\ ops' = ops + 1
    /\ UNCHANGED <<idCounter, json, reads>>
    /\ UNCHANGED histVars
    /\ UNCHANGED viewVars

\* p.removeAllChildren()
RemoveAllChildren ==
    /\ Running
    /\ \E p \in Refs(heap) :
         /\ heap' = removeAllChildren(heap, p)
         /\ last' = Call("removeAllChildren", p, NoArg, Omitted, "returns", NoArg)
    /\ ops' = ops + 1
    /\ UNCHANGED <<idCounter, json, reads>>
    /\ UNCHANGED histVars
    /\ UNCHANGED viewVars

\* n.remove()
Remove ==
    /\ Running
    /\ \E n \in Refs(heap) :
         LET r == remove(heap, n)
         IN  /\ heap' = r.heap
             /\ last' = Call("remove", n, NoArg, Omitted, "returns", r.ret)
    /\ ops' = ops + 1
    /\ UNCHANGED <<idCounter, json, reads>>
    /\ UNCHANGED histVars
    /\ UNCHANGED viewVars

\* n.moveTo(p, index)
MoveTo ==
    /\ Running
    /\ \E n \in Refs(heap), p \in Refs(heap), index \in IndexArgs :
         LET r == moveTo(heap, n, p, index)
         IN  /\ heap' = r.heap
             /\ last' = Call("moveTo", n, p, index, r.outcome, r.ret)
    /\ ops' = ops + 1
    /\ UNCHANGED <<idCounter, json, reads>>
    /\ UNCHANGED histVars
    /\ UNCHANGED viewVars

\* n.clone(includeChildren)
Clone ==
    /\ Running
    /\ \E n \in Refs(heap), includeChildren \in BOOLEAN :
         IF ToJSONOverflows(heap, n)
         THEN /\ UNCHANGED <<heap, idCounter>>
              /\ last' = Call("clone", n, includeChildren, Omitted, "throws", Null)
         ELSE /\ Len(heap) + DataSize(ClonedData(heap, idCounter, n, includeChildren))
                    <= MaxNodes
              /\ LET r == clone(heap, idCounter, n, includeChildren)
                 IN  /\ heap' = r.heap
                     /\ idCounter' = r.counter
                     /\ last' = Call("clone", n, includeChildren, Omitted,
                                     "returns", r.ref)
    /\ ops' = ops + 1
    /\ UNCHANGED <<json, reads>>
    /\ UNCHANGED histVars
    /\ UNCHANGED viewVars

Next ==
    \/ NewNode
    \/ Clone
    \/ AddChildData
    \/ AddChildNode
    \/ RemoveChild
    \/ RemoveChildById
    \/ RemoveAllChildren
    \/ Remove
    \/ MoveTo

Spec == Init /\ [][Next]_vars
----------------------------------------------------------------------------
(* The round trip through toJSON and fromJSON *)

\* the records with key k missing or set to one of the values of vs
Opt(k, vs) == {EmptyObj} \cup {(k :> v) : v \in vs}

\* records without children: every way of leaving out or giving each key,
\* with the falsy values "" and false among those given
LeafData ==
    { i @@ t @@ e @@ s @@ hd @@ g @@ y @@ st @@ d :
        i  \in Opt("id", {"", "a"}),
        t  \in Opt("text", {"", "t"}),
        e  \in Opt("expanded", BOOLEAN),
        s  \in Opt("selected", BOOLEAN),
        hd \in Opt("hidden", {TRUE}),
        g  \in Opt("tags", {<<>>, <<"x", "x">>}),
        y  \in Opt("type", {"", "ty"}),
        st \in Opt("style", {[fontSize |-> 20]}),
        d  \in Opt("data", {[k |-> 1]}) }

\* the records given as children
KidData ==
    { [id |-> "k"],
      [text |-> "t", expanded |-> FALSE, tags |-> <<"x">>],
      [id |-> "k", selected |-> TRUE, children |-> <<[type |-> "ty"]>>] }

\* records with children: up to two, in either order, under a few parents
ParentData ==
    { top @@ [children |-> kids] :
        top  \in {EmptyObj, [id |-> "a", text |-> "t", hidden |-> TRUE]},
        kids \in {<<>>} \cup {<<k>> : k \in KidData}
                       \cup {<<k1, k2>> : k1 \in KidData, k2 \in KidData} }

JSONData == LeafData \cup ParentData

\* n = new MindNode(data)
InitJSON ==
    /\ \E d \in JSONData :
         LET r == Construct(<<>>, 0, d)
         IN  /\ heap = r.heap
             /\ idCounter = r.counter
             /\ last = Call("new", r.ref, NoArg, Omitted, "returns", r.ref)
    /\ ops = 0
    /\ json = <<>>
    /\ reads = <<>>
    /\ NoHistory
    /\ NoViewport

\* the node the calls are made on: the first object created
Original == CHOOSE n \in Refs(heap) : \A m \in Refs(heap) : n <= m

\* j = m.toJSON(), with m the node made last
ToJSON ==
    /\ last.op \in {"new", "fromJSON"}
    /\ json' = Append(json, toJSON(heap, last.ret))
    /\ last' = Call("toJSON", last.ret, NoArg, Omitted, "returns", NoArg)
    /\ UNCHANGED <<heap, idCounter, ops, reads>>
    /\ UNCHANGED histVars
    /\ UNCHANGED viewVars

\* m = MindNode.fromJSON(j), with j the record made last
FromJSON ==
    /\ last.op = "toJSON"
    /\ Len(json) = 1
    /\ LET r == fromJSON(heap, idCounter, json[Len(json)])
       IN  /\ heap' = r.heap
           /\ idCounter' = r.counter
           /\ last' = Call("fromJSON", Original, NoArg, Omitted, "returns", r.ref)
    /\ UNCHANGED <<json, ops, reads>>
    /\ UNCHANGED histVars
    /\ UNCHANGED viewVars

NextJSON == ToJSON \/ FromJSON

SpecJSON == InitJSON /\ [][NextJSON]_vars

\* nodes a and b of heap h head equal trees: same id, text, style, flags and
\* tags, children equal one by one in the same order, each child's parent the
\* node that lists it
RECURSIVE SameTree(_, _, _)
SameTree(h, a, b) ==
    /\ h[b].id = h[a].id
    /\ h[b].text = h[a].text
    /\ h[b].style = h[a].style
    /\ h[b].expanded = h[a].expanded
    /\ h[b].selected = h[a].selected
    /\ h[b].hidden = h[a].hidden
    /\ h[b].tags = h[a].tags
    /\ Len(h[b].children) = Len(h[a].children)
    /\ \A i \in 1 .. Len(h[a].children) :
           /\ h[h[b].children[i]].parent = b
           /\ SameTree(h, h[a].children[i], h[b].children[i])

\* C9: for a node n made by the constructor, fromJSON(n.toJSON()) is a tree
\* with the ids, text, style, flags, tags and structure of n, and its toJSON
\* is a record equal to n.toJSON().
C9_JSONRoundTrip ==
    /\ last.op = "fromJSON" =>
           /\ last.ret # Original
           /\ heap[last.ret].parent = Null
           /\ SameTree(heap, Original, last.ret)
    /\ Len(json) = 2 => json[2] = json[1]

\* the round trip has run on a tree with children whose record left keys out
C9_Witness ==
    /\ Len(json) = 2
    /\ Len(heap[Original].children) = 2
    /\ heap[Original].id = generateId(1)
    /\ \E n \in Refs(heap) : ~heap[n].expanded
    /\ ~Has(json[2], "type")

----------------------------------------------------------------------------
(* Geometry and its cache *)

\* get rect(): [heap, ret]
rect(h, this) ==
    LET o == h[this]
        stale == \/ o.rectCache = <<>>
                 \/ o.rectCache[1].x # o.x
                 \/ o.rectCache[1].y # o.y
        h1 == IF stale
              THEN [h EXCEPT ![this].rectCache =
                       <<[x |-> o.x, y |-> o.y, width |-> o.width, height |-> o.height]>>]
              ELSE h
    IN  [heap |-> h1, ret |-> h1[this].rectCache[1]]

\* get centerPoint(): [heap, ret]. Widths and heights of the model are even,
\* so that width / 2 is the whole number width \div 2.
centerPoint(h, this) ==
    LET o == h[this]
        h1 == IF o.centerCache = <<>>
              THEN [h EXCEPT ![this].centerCache =
                       <<[x |-> o.x + o.width \div 2, y |-> o.y + o.height \div 2]>>]
              ELSE h
    IN  [heap |-> h1, ret |-> h1[this].centerCache[1]]

\* setPosition(x, y): the heap afterwards
setPosition(h, this, x, y) ==
    [h EXCEPT ![this].x = x, ![this].y = y,
              ![this].rectCache = <<>>, ![this].centerCache = <<>>]

\* setSize as it would be if it left the caches alone
setSize_KeepsCache(h, this, width, height) ==
    [h EXCEPT ![this].width = width, ![this].height = height]

\* setSize(width, height): the heap afterwards
setSize(h, this, width, height) ==
    [h EXCEPT ![this].width = width, ![this].height = height,
              ![this].rectCache = <<>>, ![this].centerCache = <<>>]

\* setRect(rect): the heap afterwards
setRect(h, this, r) ==
    [h EXCEPT ![this].x = r.x, ![this].y = r.y,
              ![this].width = r.width, ![this].height = r.height,
              ![this].rectCache = <<>>, ![this].centerCache = <<>>]

Coords == {0, 1}
Sizes == {0, 2}

GeomData ==
    { x @@ y @@ w @@ ht :
        x  \in Opt("x", {1}),
        y  \in Opt("y", {1}),
        w  \in Opt("width", {2}),
        ht \in Opt("height", {2}) }

\* n = new MindNode(data)
InitGeom ==
    /\ \E d \in GeomData :
         LET r == Construct(<<>>, 0, d)
         IN  /\ heap = r.heap
             /\ idCounter = r.counter
             /\ last = Call("new", r.ref, NoArg, Omitted, "returns", r.ref)
    /\ ops = 0
    /\ json = <<>>
    /\ reads = <<>>
    /\ NoHistory
    /\ NoViewport

\* n.setPosition(x, y)
SetPosition ==
    /\ \E x \in Coords, y \in Coords :
         /\ heap' = setPosition(heap, Original, x, y)
         /\ last' = Call("setPosition", Original, NoArg, Omitted, "returns", NoArg)
    /\ UNCHANGED <<idCounter, ops, json, reads>>
    /\ UNCHANGED histVars
    /\ UNCHANGED viewVars

\* n.setSize(width, height)
SetSize ==
    /\ \E w \in Sizes, ht \in Sizes :
         /\ heap' = setSize(heap, Original, w, ht)
         /\ last' = Call("setSize", Original, NoArg, Omitted, "returns", NoArg)
    /\ UNCHANGED <<idCounter, ops, json, reads>>
    /\ UNCHANGED histVars
    /\ UNCHANGED viewVars

\* n.setRect(rect)
SetRect ==
    /\ \E x \in Coords, y \in Coords, w \in Sizes, ht \in Sizes :
         /\ heap' = setRect(heap, Original,
                            [x |-> x, y |-> y, width |-> w, height |-> ht])
         /\ last' = Call("setRect", Original, NoArg, Omitted, "returns", NoArg)
    /\ UNCHANGED <<idCounter, ops, json, reads>>
    /\ UNCHANGED histVars
    /\ UNCHANGED viewVars

\* a read of n.rect
ReadRect ==
    /\ LET r == rect(heap, Original)
       IN  /\ heap' = r.heap
           /\ reads' = <<r.ret>>
    /\ last' = Call("rect", Original, NoArg, Omitted, "returns", NoArg)
    /\ UNCHANGED <<idCounter, ops, json>>
    /\ UNCHANGED histVars
    /\ UNCHANGED viewVars

\* a read of n.centerPoint
ReadCenterPoint ==
    /\ LET r == centerPoint(heap, Original)
       IN  /\ heap' = r.heap
           /\ reads' = <<r.ret>>
    /\ last' = Call("centerPoint", Original, NoArg, Omitted, "returns", NoArg)
    /\ UNCHANGED <<idCounter, ops, json>>
    /\ UNCHANGED histVars
    /\ UNCHANGED viewVars

NextGeom == SetPosition \/ SetSize \/ SetRect \/ ReadRect \/ ReadCenterPoint

SpecGeom == InitGeom /\ [][NextGeom]_vars

\* C10: after any sequence of setPosition, setSize and setRect interleaved
\* with reads, a read of rect returns the node's current x, y, width and
\* height and a read of centerPoint returns (x + width/2, y + height/2) of
\* the current fields.
C10_GeometryReadsAreCurrent ==
    LET o == heap[Original]
    IN  /\ last.op = "rect" =>
              reads = <<[x |-> o.x, y |-> o.y, width |-> o.width, height |-> o.height]>>
        /\ last.op = "centerPoint" =>
              /\ 2 * reads[1].x = 2 * o.x + o.width
              /\ 2 * reads[1].y = 2 * o.y + o.height

\* centerPoint is read with both caches filled by reads made before the
\* last write, which changed the size and left x and y alone
C10_Witness ==
    /\ last.op = "centerPoint"
    /\ heap[Original].rectCache # <<>>
    /\ heap[Original].width = 2
    /\ heap[Original].x = 1
    /\ reads = <<[x |-> 2, y |-> 1]>>

----------------------------------------------------------------------------
(* Notation for the properties *)

Elems(s) == {s[i] : i \in 1 .. Len(s)}

Occurrences(s, e) == Cardinality({i \in 1 .. Len(s) : s[i] = e})

ChildrenOf(h, p) == Elems(h[p].children)

\* the tree a node heads: the node and everything below it
Subtree(h, n) == {n} \cup Descendants(h, n)

\* the call `last` records is a call of `op` that returned
Returned(call, op) == call.op = op /\ call.outcome = "returns"

----------------------------------------------------------------------------
(* Structure of the tree: C1, C2 *)

\* C1: parent and children are mutually consistent after any sequence of
\* calls: n is in p.children exactly when n.parent = p, and n occurs at most
\* once in p.children.
C1_ParentChildrenConsistent ==
    \A n \in Refs(heap), p \in Refs(heap) :
        /\ (n \in ChildrenOf(heap, p)) <=> (heap[n].parent = p)
        /\ Occurrences(heap[p].children, n) <= 1

\* C2: the node graph is acyclic and single-parented: no node is reachable
\* from itself by following children, and every node is listed in the
\* children of at most one node.
C2_AcyclicSingleParent ==
    \A n \in Refs(heap) :
        /\ n \notin Descendants(heap, n)
        /\ Cardinality({p \in Refs(heap) : n \in ChildrenOf(heap, p)}) <= 1

----------------------------------------------------------------------------
(* moveTo: C3, C4 *)

\* s with every occurrence of e taken out
Without(s, e) == SelectSeq(s, LAMBDA x : x # e)

\* C3: n.moveTo(p, index) with p = n or p a descendant of n returns false,
\* throws nothing, and leaves every node's parent and every children
\* sequence as before.
C3_MoveToSelfOrDescendantRejected ==
    [][ (/\ last'.op = "moveTo"
         /\ \/ last'.arg = last'.this
            \/ last'.arg \in Descendants(heap, last'.this))
        => (/\ last'.outcome = "returns"
            /\ last'.ret = FALSE
            /\ heap' = heap) ]_vars

\* C4: when p is neither n nor a descendant of n, n.moveTo(p, index) returns
\* true; afterwards n.parent = p, n occurs exactly once in p.children, at
\* position index when one is given (read here as: given and within the
\* children p has once n is detached) and last otherwise, n is absent from
\* its former parent's children, n's own subtree is untouched, and the other
\* children of both parents keep their relative order.
C4_MoveToAttaches ==
    [][ LET n    == last'.this
            p    == last'.arg
            ix   == last'.index
            old  == heap[n].parent
            rest == Without(heap[p].children, n)
            pos  == IF ix # Omitted /\ ix[1] >= 0 /\ ix[1] <= Len(rest)
                    THEN ix[1] ELSE Len(rest)
        IN  (/\ last'.op = "moveTo"
             /\ p # n
             /\ p \notin Descendants(heap, n))
            => (/\ last'.outcome = "returns"
                /\ last'.ret = TRUE
                /\ heap'[n].parent = p
                /\ Occurrences(heap'[p].children, n) = 1
                /\ heap'[p].children = SpliceIn(rest, pos, n)
                /\ (old # Null /\ old # p) =>
                       heap'[old].children = Without(heap[old].children, n)
                /\ \A m \in Subtree(heap, n) :
                       /\ heap'[m].children = heap[m].children
                       /\ m # n => heap'[m].parent = heap[m].parent) ]_vars

----------------------------------------------------------------------------
(* addChild: C5 *)

IsAddChild(call) == call.op \in {"addChild", "addChildData"}

Clamp(i, lo, hi) == IF i < lo THEN lo ELSE IF i > hi THEN hi ELSE i

\* the child sits at 0-based position pos of `after`, and the entries around
\* it are those of `before`, in order
InsertedAt(before, after, pos, child) ==
    /\ Len(after) = Len(before) + 1
    /\ after[pos + 1] = child
    /\ SpliceOut(after, pos + 1) = before

\* C5 as stated: addChild(x, index) returns the attached node and puts it at
\* position index clamped into [0, len]: below 0 at 0, above len at len, in
\* range exactly there.
C5_AddChildClampsIndex ==
    [][ (IsAddChild(last') /\ last'.index # Omitted)
        => LET p   == last'.this
               c   == last'.arg
               len == Len(heap[p].children)
           IN  /\ last'.outcome = "returns"
               /\ last'.ret = c
               /\ heap'[c].parent = p
               /\ InsertedAt(heap[p].children, heap'[p].children,
                             Clamp(last'.index[1], 0, len), c) ]_vars

\* C5 amended: addChild(x, index) returns the attached node; an index within
\* [0, len] inserts exactly there, and every other index (below 0, above len,
\* or none) appends at position len.
C5_AddChildAppendsOutOfRange ==
    [][ IsAddChild(last')
        => LET p   == last'.this
               c   == last'.arg
               ix  == last'.index
               len == Len(heap[p].children)
               pos == IF ix # Omitted /\ ix[1] >= 0 /\ ix[1] <= len
                      THEN ix[1] ELSE len
           IN  /\ last'.outcome = "returns"
               /\ last'.ret = c
               /\ heap'[c].parent = p
               /\ InsertedAt(heap[p].children, heap'[p].children, pos, c) ]_vars

\* addChild with an index below 0 has put the child last, behind a sibling
C5_Witness ==
    /\ IsAddChild(last)
    /\ last.index = Given(-1)
    /\ Len(heap[last.this].children) >= 2
    /\ heap[last.this].children[Len(heap[last.this].children)] = last.arg
    /\ heap[last.this].children[1] # last.arg

----------------------------------------------------------------------------
(* Ids and clone: C6, C7 *)

\* C6: node ids are unique within a tree in every reachable state: no two
\* distinct nodes of one tree have the same id.
C6_IdsUniqueInTree ==
    \A r \in Refs(heap) :
        \A n \in Subtree(heap, r), m \in Subtree(heap, r) :
            n # m => heap[n].id # heap[m].id

\* node b of heap h is a copy of node a with another id, and so on downwards:
\* same text, style, flags and tags, as many children, each a copy of the
\* child at the same place
RECURSIVE CopyWithFreshIds(_, _, _)
CopyWithFreshIds(h, a, b) ==
    /\ h[b].id # h[a].id
    /\ h[b].text = h[a].text
    /\ h[b].style = h[a].style
    /\ h[b].expanded = h[a].expanded
    /\ h[b].selected = h[a].selected
    /\ h[b].hidden = h[a].hidden
    /\ h[b].tags = h[a].tags
    /\ Len(h[b].children) = Len(h[a].children)
    /\ \A i \in 1 .. Len(h[a].children) :
           /\ h[h[b].children[i]].parent = b
           /\ CopyWithFreshIds(h, h[a].children[i], h[b].children[i])

\* C7: n.clone(true) returns a detached tree with the shape, text, style,
\* flags and tags of n's subtree in which every node, the copy of n and the
\* copy of every descendant, has an id different from that of its source
\* node. (Objects of the model carry no identity, so the part of the claim
\* about not sharing style, data and tags objects is not in the formula.)
C7_CloneHasFreshIds ==
    [][ (Returned(last', "clone") /\ last'.arg = TRUE)
        => (/\ heap'[last'.ret].parent = Null
            /\ last'.ret \notin Refs(heap)
            /\ CopyWithFreshIds(heap', last'.this, last'.ret)) ]_vars

----------------------------------------------------------------------------
(* removeChild, remove, removeAllChildren: C8 *)

\* heap h2 is h1 with the entry at position i of p.children taken out and
\* that child's parent set to null; every other parent, every other children
\* sequence and every other field are as in h1
Detached(h1, h2, p, i) ==
    LET t == h1[p].children[i]
    IN  /\ Len(h2) = Len(h1)
        /\ h2[p].children = SpliceOut(h1[p].children, i)
        /\ h2[t].parent = Null
        /\ \A m \in Refs(h1) :
               /\ m # p => h2[m].children = h1[m].children
               /\ m # t => h2[m].parent = h1[m].parent
               /\ [h2[m] EXCEPT !.parent = Null, !.children = <<>>]
                    = [h1[m] EXCEPT !.parent = Null, !.children = <<>>]

\* C8: p.removeChild(t) returns true exactly when t matches a direct child of
\* p, by reference or by id; then exactly that one entry leaves p.children
\* and that child's parent becomes null, while every link inside the detached
\* subtree and the order of p's remaining children stay; when nothing
\* matches it returns false and nothing changes. The same for remove(), and
\* for every child under removeAllChildren().
C8_RemoveDetachesOneChild ==
    [][ /\ last'.op = "removeChild" =>
            LET p == last'.this
                match == {i \in 1 .. Len(heap[p].children) :
                              heap[p].children[i] = last'.arg}
            IN  /\ last'.outcome = "returns"
                /\ last'.ret = (match # {})
                /\ IF match = {} THEN heap' = heap
                   ELSE \E i \in match : Detached(heap, heap', p, i)
        /\ last'.op = "removeChildById" =>
            LET p == last'.this
                match == {i \in 1 .. Len(heap[p].children) :
                              heap[heap[p].children[i]].id = last'.arg}
            IN  /\ last'.outcome = "returns"
                /\ last'.ret = (match # {})
                /\ IF match = {} THEN heap' = heap
                   ELSE \E i \in match : Detached(heap, heap', p, i)
        /\ last'.op = "remove" =>
            LET n == last'.this
                p == heap[n].parent
                match == IF p = Null THEN {}
                         ELSE {i \in 1 .. Len(heap[p].children) :
                                   heap[p].children[i] = n}
            IN  /\ last'.outcome = "returns"
                /\ last'.ret = (match # {})
                /\ IF match = {} THEN heap' = heap
                   ELSE \E i \in match : Detached(heap, heap', p, i)
        /\ last'.op = "removeAllChildren" =>
            LET p == last'.this
                kids == ChildrenOf(heap, p)
            IN  /\ last'.outcome = "returns"
                /\ Len(heap') = Len(heap)
                /\ heap'[p].children = <<>>
                /\ \A m \in Refs(heap) :
                       /\ m \in kids => heap'[m].parent = Null
                       /\ m \notin kids => heap'[m].parent = heap[m].parent
                       /\ m # p => heap'[m].children = heap[m].children ]_vars

\* removeChild has just detached a child that heads a subtree of its own and
\* leaves a sibling behind
C8_Witness ==
    /\ last.op \in {"removeChild", "removeChildById", "remove"}
    /\ last.ret = TRUE
    /\ \E t \in Refs(heap), p \in Refs(heap) :
           /\ heap[t].parent = Null
           /\ heap[t].children # <<>>
           /\ t \notin ChildrenOf(heap, p)
           /\ heap[p].children # <<>>
           /\ p # t

----------------------------------------------------------------------------
(* MindNode: tags *)

\* s.includes(e)
includes(s, e) == \E i \in 1 .. Len(s) : s[i] = e

\* this.addTag(tag)
addTag(h, this, tag) ==
    IF ~includes(h[this].tags, tag)
    THEN [h EXCEPT ![this].tags = Append(@, tag)]
    ELSE h

\* this.removeTag(tag)
removeTag(h, this, tag) ==
    LET index == indexOf(h[this].tags, tag)
    IN  IF index # 0
        THEN [h EXCEPT ![this].tags = SpliceOut(@, index)]
        ELSE h

\* this.hasTag(tag)
hasTag(h, this, tag) == includes(h[this].tags, tag)

Tags == {"x", "y", "z"}

\* the tag lists a data record may carry: any list of up to two tags
TagLists ==
    {<<>>} \cup {<<t>> : t \in Tags} \cup {<<t1, t2>> : t1 \in Tags, t2 \in Tags}

TagData == {EmptyObj} \cup {[tags |-> s] : s \in TagLists}

\* n = new MindNode(data)
InitTags ==
    /\ \E d \in TagData :
         LET r == Construct(<<>>, 0, d)
         IN  /\ heap = r.heap
             /\ idCounter = r.counter
             /\ last = Call("new", r.ref, NoArg, Omitted, "returns", r.ref)
    /\ ops = 0
    /\ json = <<>>
    /\ reads = <<>>
    /\ NoHistory
    /\ NoViewport

\* n.addTag(tag)
AddTag ==
    /\ ops < MaxOps
    /\ \E tag \in Tags :
         /\ heap' = addTag(heap, Original, tag)
         /\ last' = Call("addTag", Original, tag, Omitted, "returns", NoArg)
    /\ ops' = ops + 1
    /\ UNCHANGED <<idCounter, json, reads>>
    /\ UNCHANGED histVars
    /\ UNCHANGED viewVars

\* n.removeTag(tag)
RemoveTag ==
    /\ ops < MaxOps
    /\ \E tag \in Tags :
         /\ heap' = removeTag(heap, Original, tag)
         /\ last' = Call("removeTag", Original, tag, Omitted, "returns", NoArg)
    /\ ops' = ops + 1
    /\ UNCHANGED <<idCounter, json, reads>>
    /\ UNCHANGED histVars
    /\ UNCHANGED viewVars

\* n.hasTag(tag)
HasTag ==
    /\ ops < MaxOps
    /\ \E tag \in Tags :
         last' = Call("hasTag", Original, tag, Omitted, "returns",
                      hasTag(heap, Original, tag))
    /\ ops' = ops + 1
    /\ UNCHANGED <<heap, idCounter, json, reads>>
    /\ UNCHANGED histVars
    /\ UNCHANGED viewVars

NextTags == AddTag \/ RemoveTag \/ HasTag

SpecTags == InitTags /\ [][NextTags]_vars

\* C11: a node's tags never contain duplicates, whatever record it was built
\* from and whatever addTag and removeTag calls followed, and right after
\* removeTag(t) the node does not have the tag t.
C11_TagsNoDuplicates ==
    /\ \A n \in Refs(heap) : \A t \in Elems(heap[n].tags) :
            Occurrences(heap[n].tags, t) = 1
    /\ last.op = "removeTag" => ~hasTag(heap, last.this, last.arg)

----------------------------------------------------------------------------
(* Geometry through toJSON and fromJSON *)

\* j = n.toJSON()
GeomToJSON ==
    /\ json = <<>>
    /\ json' = <<toJSON(heap, Original)>>
    /\ last' = Call("toJSON", Original, NoArg, Omitted, "returns", NoArg)
    /\ UNCHANGED <<heap, idCounter, ops, reads>>
    /\ UNCHANGED histVars
    /\ UNCHANGED viewVars

\* m = MindNode.fromJSON(j), with no call on n since j was made
GeomFromJSON ==
    /\ last.op = "toJSON"
    /\ LET r == fromJSON(heap, idCounter, json[1])
       IN  /\ heap' = r.heap
           /\ idCounter' = r.counter
           /\ last' = Call("fromJSON", Original, NoArg, Omitted, "returns", r.ref)
    /\ UNCHANGED <<json, ops, reads>>
    /\ UNCHANGED histVars
    /\ UNCHANGED viewVars

NextGeomJSON == SetPosition \/ SetSize \/ SetRect \/ GeomToJSON \/ GeomFromJSON

SpecGeomJSON == InitGeom /\ [][NextGeomJSON]_vars

GeometryKeys == {"x", "y", "width", "height"}

\* C12: the record toJSON produces has the node's x, y, width and height,
\* and fromJSON of that record gives a node with the same x, y, width and
\* height.
C12_ToJSONKeepsGeometry ==
    last.op = "fromJSON" =>
        LET o == heap[Original]
            m == heap[last.ret]
        IN  /\ \A k \in GeometryKeys : Has(json[1], k)
            /\ m.x = o.x /\ m.y = o.y
            /\ m.width = o.width /\ m.height = o.height

----------------------------------------------------------------------------
(* Commands *)

\* The commands callers hand to the history. The repository's sources
\* define the Command interface and BaseCommand only; the two concrete
\* commands below are the ones the specification describes: a text edit that
\* may coalesce with the next edit of the same node, and the addition of a
\* child.
\*   kind       "setText" or "addChild"
\*   node       the node edited, or the parent the child is added to
\*   child      the node added (Null for a text edit)
\*   text       the text the edit sets
\*   old        the text the edit replaced, known once it has run
\*   mergeable  whether canMerge accepts a later text edit of the same node
\*   plain      whether the command is an object with name, execute and undo
\*              only, as the Command interface allows, and not a BaseCommand
SetTextCommand(node, text, mergeable) ==
    [kind |-> "setText", node |-> node, child |-> Null, text |-> text,
     old |-> Undefined, mergeable |-> mergeable, plain |-> FALSE]

AddChildCommand(node, child) ==
    [kind |-> "addChild", node |-> node, child |-> child, text |-> Undefined,
     old |-> Undefined, mergeable |-> FALSE, plain |-> FALSE]

\* { name, execute() { ... }, undo() { ... } }: a text edit without redo,
\* canMerge and merge
PlainSetTextCommand(node, text) ==
    [kind |-> "setText", node |-> node, child |-> Null, text |-> text,
     old |-> Undefined, mergeable |-> FALSE, plain |-> TRUE]

\* the optional members of Command: redo?, canMerge?, merge?
OptionalMethods == {"redo", "canMerge", "merge"}

\* whether cs[c][method] is a function: calling a member that is undefined
\* throws a TypeError
HasMethod(cs, c, method) == ~(cs[c].plain /\ method \in OptionalMethods)

\* node.setText(text)
setText(h, this, text) == [h EXCEPT ![this].text = text]

\* command.execute(): [commands, heap] after it
commandExecute(cs, h, c) ==
    IF cs[c].kind = "setText"
    THEN [commands |-> [cs EXCEPT ![c].old = h[cs[c].node].text],
          heap     |-> setText(h, cs[c].node, cs[c].text)]
    ELSE [commands |-> cs,
          heap     |-> addChild(h, cs[c].node, cs[c].child, Omitted).heap]

\* command.undo()
commandUndo(cs, h, c) ==
    IF cs[c].kind = "setText"
    THEN [commands |-> cs, heap |-> setText(h, cs[c].node, cs[c].old)]
    ELSE [commands |-> cs, heap |-> removeChild(h, cs[c].node, cs[c].child).heap]

\* BaseCommand.redo(): this.execute()
commandRedo(cs, h, c) == commandExecute(cs, h, c)

\* c.canMerge(other): BaseCommand's answer is false; a text edit made
\* mergeable accepts a text edit of the same node
canMerge(cs, c, other) ==
    /\ cs[c].kind = "setText"
    /\ cs[c].mergeable
    /\ cs[other].kind = "setText"
    /\ cs[other].node = cs[c].node

\* c.merge(other): BaseCommand's does nothing; a text edit takes over the
\* text of the later edit and keeps the text it replaced itself
merge(cs, c, other) ==
    IF cs[c].kind = "setText"
    THEN [cs EXCEPT ![c].text = cs[other].text]
    ELSE cs

\* this.count()
RECURSIVE count(_, _)
RECURSIVE countSum(_, _, _)
count(h, this) == 1 + countSum(h, h[this].children, 1)
countSum(h, kids, i) ==
    IF i > Len(kids) THEN 0 ELSE count(h, kids[i]) + countSum(h, kids, i + 1)

----------------------------------------------------------------------------
(* CommandHistory *)

\* A method of the history that runs a command is modelled in two steps:
\* up to the call of the command's method, and from the command's return or
\* throw to the method's own end. Between the two the command's method is
\* running and may call the history again. `frames` holds the calls in
\* progress, innermost last.

Front(s) == SubSeq(s, 1, Len(s) - 1)
Top(s) == s[Len(s)]

\* execute(command) up to command.execute(): whether the call got past the
\* guard, and the history then
executeEnter(H) ==
    IF H.isExecuting
    THEN [history |-> H, entered |-> FALSE]
    ELSE [history |-> [H EXCEPT !.isExecuting = TRUE], entered |-> TRUE]

executeReturn_AlwaysPushes(H, cs, command) ==
    LET pushed == Append(H.undoStack, command)
    IN  [history  |-> [H EXCEPT !.undoStack = IF Len(pushed) > H.maxStackSize
                                              THEN Tail(pushed) ELSE pushed,
                                !.redoStack = <<>>,
                                !.isExecuting = FALSE],
         commands |-> cs]

executeReturn_KeepsRedo(H, cs, command) ==
    LET pushed == Append(H.undoStack, command)
    IN  IF Len(H.undoStack) > 0 /\ canMerge(cs, Top(H.undoStack), command)
        THEN [history  |-> [H EXCEPT !.redoStack = <<>>, !.isExecuting = FALSE],
              commands |-> merge(cs, Top(H.undoStack), command)]
        ELSE [history  |-> [H EXCEPT !.undoStack = IF Len(pushed) > H.maxStackSize
                                                   THEN Tail(pushed) ELSE pushed,
                                     !.isExecuting = FALSE],
              commands |-> cs]

executeReturn_Untrimmed(H, cs, command) ==
    IF Len(H.undoStack) > 0 /\ canMerge(cs, Top(H.undoStack), command)
    THEN [history  |-> [H EXCEPT !.redoStack = <<>>, !.isExecuting = FALSE],
          commands |-> merge(cs, Top(H.undoStack), command)]
    ELSE [history  |-> [H EXCEPT !.undoStack = Append(H.undoStack, command),
                                 !.redoStack = <<>>,
                                 !.isExecuting = FALSE],
          commands |-> cs]

executeReturn_EvictsNewest(H, cs, command) ==
    LET pushed == Append(H.undoStack, command)
    IN  IF Len(H.undoStack) > 0 /\ canMerge(cs, Top(H.undoStack), command)
        THEN [history  |-> [H EXCEPT !.redoStack = <<>>, !.isExecuting = FALSE],
              commands |-> merge(cs, Top(H.undoStack), command)]
        ELSE [history  |-> [H EXCEPT !.undoStack = IF Len(pushed) > H.maxStackSize
                                                   THEN Front(pushed) ELSE pushed,
                                     !.redoStack = <<>>,
                                     !.isExecuting = FALSE],
              commands |-> cs]

\* execute(command) after command.execute() returned: merge into the top of
\* the undo stack or push and trim, clear the redo stack, release the guard
executeReturn(H, cs, command) ==
    LET pushed == Append(H.undoStack, command)
    IN  IF Len(H.undoStack) > 0 /\ canMerge(cs, Top(H.undoStack), command)
        THEN [history  |-> [H EXCEPT !.redoStack = <<>>, !.isExecuting = FALSE],
              commands |-> merge(cs, Top(H.undoStack), command)]
        ELSE [history  |-> [H EXCEPT !.undoStack = IF Len(pushed) > H.maxStackSize
                                                   THEN Tail(pushed) ELSE pushed,
                                     !.redoStack = <<>>,
                                     !.isExecuting = FALSE],
              commands |-> cs]

executeThrow_KeepsGuard(H) == H

\* execute(command) after command.execute() threw: the finally block
executeThrow(H) == [H EXCEPT !.isExecuting = FALSE]

undoEnter_PopsOldest(H) ==
    IF Len(H.undoStack) = 0 \/ H.isExecuting
    THEN [history |-> H, entered |-> FALSE, command |-> Null]
    ELSE [history |-> [H EXCEPT !.isExecuting = TRUE, !.undoStack = Tail(@)],
          entered |-> TRUE,
          command |-> Head(H.undoStack)]

\* undo() up to command.undo(): the guard, then the pop
undoEnter(H) ==
    IF Len(H.undoStack) = 0 \/ H.isExecuting
    THEN [history |-> H, entered |-> FALSE, command |-> Null]
    ELSE [history |-> [H EXCEPT !.isExecuting = TRUE, !.undoStack = Front(@)],
          entered |-> TRUE,
          command |-> Top(H.undoStack)]

undoReturn_DropsCommand(H, command) == [H EXCEPT !.isExecuting = FALSE]

\* undo() after command.undo() returned
undoReturn(H, command) ==
    [H EXCEPT !.redoStack = Append(@, command), !.isExecuting = FALSE]

\* undo() after command.undo() threw: the finally block
undoThrow(H) == [H EXCEPT !.isExecuting = FALSE]

\* redo() up to command.redo()
redoEnter(H) ==
    IF Len(H.redoStack) = 0 \/ H.isExecuting
    THEN [history |-> H, entered |-> FALSE, command |-> Null]
    ELSE [history |-> [H EXCEPT !.isExecuting = TRUE, !.redoStack = Front(@)],
          entered |-> TRUE,
          command |-> Top(H.redoStack)]

\* redo() after command.redo() returned
redoReturn(H, command) ==
    [H EXCEPT !.undoStack = Append(@, command), !.isExecuting = FALSE]

\* redo() after command.redo() threw: the finally block
redoThrow(H) == [H EXCEPT !.isExecuting = FALSE]

\* clear()
clear(H) == [H EXCEPT !.undoStack = <<>>, !.redoStack = <<>>]

canUndo_IgnoresGuard(H) == Len(H.undoStack) > 0

\* canUndo()
canUndo(H) == Len(H.undoStack) > 0 /\ ~H.isExecuting

\* canRedo()
canRedo(H) == Len(H.redoStack) > 0 /\ ~H.isExecuting

----------------------------------------------------------------------------
(* The history over a document *)

\* the text edits made: one that accepts a merge and one that does not
TextEdits == {[text |-> "x", mergeable |-> TRUE], [text |-> "y", mergeable |-> FALSE]}

\* the capacities the history is constructed with
StackSizes == {2, 3}

\* the last step: the method, the command it is about, how far it got
\* ("call": it returned at once, "enter": the command's method was called,
\* "return" / "throw": the command's method ended and so did the call) and
\* what it returned (NoArg for a method that returns nothing)
HistCall(op, command, step, ret) ==
    [op |-> op, command |-> command, step |-> step, ret |-> ret]

\* a call in progress, with the stacks as they were when it was made
Frame(op, command) ==
    [op |-> op, command |-> command,
     entry |-> [undoStack |-> history.undoStack, redoStack |-> history.redoStack]]

\* the document: the tree under the root, as a plain record
Document(h) == toJSON(h, Original)

\* the document before and after a command, not known yet
NoDocs == [before |-> <<>>, after |-> <<>>, merges |-> 0]

\* root = new MindNode({id: 'root', text: 't0'});
\* history = new CommandHistory(maxStackSize)
InitHistory ==
    /\ LET r == Construct(<<>>, 0, [id |-> "root", text |-> "t0"])
       IN  /\ heap = r.heap
           /\ idCounter = r.counter
    /\ \E m \in StackSizes :
         history = [undoStack |-> <<>>, redoStack |-> <<>>,
                    maxStackSize |-> m, isExecuting |-> FALSE]
    /\ commands = <<>>
    /\ frames = <<>>
    /\ track = [docs |-> <<>>, failed |-> FALSE]
    /\ last = HistCall("new", Null, "return", NoArg)
    /\ ops = 0
    /\ json = <<>>
    /\ reads = <<>>
    /\ NoViewport

\* history.execute(c) with c the newest command of cs, up to c.execute().
\* A command the history ignores is referenced by nothing afterwards: the
\* objects made for it are not kept.
Execute(cs, h, ic) ==
    LET c == Len(cs)
        e == executeEnter(history)
    IN  /\ history' = e.history
        /\ IF e.entered
           THEN /\ commands' = cs
                /\ heap' = h
                /\ idCounter' = ic
                /\ track' = [track EXCEPT !.docs = Append(@, NoDocs)]
                /\ frames' = Append(frames, Frame("execute", c))
                /\ last' = HistCall("execute", c, "enter", NoArg)
           ELSE /\ UNCHANGED <<commands, heap, idCounter, track, frames>>
                /\ last' = HistCall("execute", Null, "call", NoArg)
        /\ UNCHANGED <<ops, json, reads, viewVars>>

\* history.execute(new SetTextCommand(root, text))
ExecuteSetText ==
    /\ Len(commands) < MaxCommands
    /\ \E edit \in TextEdits :
         Execute(Append(commands,
                        SetTextCommand(Original, edit.text, edit.mergeable)),
                 heap, idCounter)

\* history.execute(new AddChildCommand(root, new MindNode({text: 'A'})))
ExecuteAddChild ==
    /\ Len(commands) < MaxCommands
    /\ LET r == Construct(heap, idCounter, [text |-> "A"])
       IN  Execute(Append(commands, AddChildCommand(Original, r.ref)),
                   r.heap, r.counter)

\* c.execute() returns and history.execute(c) runs to its end
ExecuteReturns ==
    /\ frames # <<>>
    /\ Top(frames).op = "execute"
    /\ Len(history.undoStack) > 0 =>
          HasMethod(commands, Top(history.undoStack), "canMerge")
    /\ LET c      == Top(frames).command
           r      == commandExecute(commands, heap, c)
           e      == executeReturn(history, r.commands, c)
           merged == /\ Len(history.undoStack) > 0
                     /\ canMerge(r.commands, Top(history.undoStack), c)
           t      == Top(history.undoStack)
       IN  /\ heap' = r.heap
           /\ commands' = e.commands
           /\ history' = e.history
           /\ track' = [track EXCEPT !.docs =
                          IF merged
                          THEN [@ EXCEPT ![t].after = Document(r.heap),
                                         ![t].merges = @ + 1]
                          ELSE [@ EXCEPT ![c].before = Document(heap),
                                         ![c].after = Document(r.heap)]]
           /\ last' = HistCall("execute", c, "return", NoArg)
    /\ frames' = Front(frames)
    /\ UNCHANGED <<idCounter, ops, json, reads, viewVars>>

\* c.execute() throws, before it changed the document. One command at most
\* fails in a run.
ExecuteThrows ==
    /\ frames # <<>>
    /\ Top(frames).op = "execute"
    /\ ~track.failed
    /\ history' = executeThrow(history)
    /\ track' = [track EXCEPT !.failed = TRUE]
    /\ last' = HistCall("execute", Top(frames).command, "throw", NoArg)
    /\ frames' = Front(frames)
    /\ UNCHANGED <<heap, idCounter, commands, ops, json, reads, viewVars>>

\* history.undo(), up to the command's undo()
Undo ==
    /\ LET u == undoEnter(history)
       IN  /\ history' = u.history
           /\ frames' = IF u.entered THEN Append(frames, Frame("undo", u.command))
                                     ELSE frames
           /\ last' = IF u.entered THEN HistCall("undo", u.command, "enter", NoArg)
                                   ELSE HistCall("undo", Null, "call", Given(FALSE))
    /\ UNCHANGED <<heap, idCounter, commands, track, ops, json, reads, viewVars>>

\* the command's undo() returns and history.undo() returns true
UndoReturns ==
    /\ frames # <<>>
    /\ Top(frames).op = "undo"
    /\ LET c == Top(frames).command
           r == commandUndo(commands, heap, c)
       IN  /\ heap' = r.heap
           /\ commands' = r.commands
           /\ history' = undoReturn(history, c)
           /\ last' = HistCall("undo", c, "return", Given(TRUE))
    /\ frames' = Front(frames)
    /\ UNCHANGED <<idCounter, track, ops, json, reads, viewVars>>

\* the command's undo() throws, before it changed the document
UndoThrows ==
    /\ frames # <<>>
    /\ Top(frames).op = "undo"
    /\ ~track.failed
    /\ history' = undoThrow(history)
    /\ track' = [track EXCEPT !.failed = TRUE]
    /\ last' = HistCall("undo", Top(frames).command, "throw", NoArg)
    /\ frames' = Front(frames)
    /\ UNCHANGED <<heap, idCounter, commands, ops, json, reads, viewVars>>

\* history.redo(), up to the command's redo()
Redo ==
    /\ LET u == redoEnter(history)
       IN  /\ history' = u.history
           /\ frames' = IF u.entered THEN Append(frames, Frame("redo", u.command))
                                     ELSE frames
           /\ last' = IF u.entered THEN HistCall("redo", u.command, "enter", NoArg)
                                   ELSE HistCall("redo", Null, "call", Given(FALSE))
    /\ UNCHANGED <<heap, idCounter, commands, track, ops, json, reads, viewVars>>

\* the command's redo() returns and history.redo() returns true
RedoReturns ==
    /\ frames # <<>>
    /\ Top(frames).op = "redo"
    /\ HasMethod(commands, Top(frames).command, "redo")
    /\ LET c == Top(frames).command
           r == commandRedo(commands, heap, c)
       IN  /\ heap' = r.heap
           /\ commands' = r.commands
           /\ history' = redoReturn(history, c)
           /\ last' = HistCall("redo", c, "return", Given(TRUE))
    /\ frames' = Front(frames)
    /\ UNCHANGED <<idCounter, track, ops, json, reads, viewVars>>

\* the command's redo() throws, before it changed the document
RedoThrows ==
    /\ frames # <<>>
    /\ Top(frames).op = "redo"
    /\ HasMethod(commands, Top(frames).command, "redo")
    /\ ~track.failed
    /\ history' = redoThrow(history)
    /\ track' = [track EXCEPT !.failed = TRUE]
    /\ last' = HistCall("redo", Top(frames).command, "throw", NoArg)
    /\ frames' = Front(frames)
    /\ UNCHANGED <<heap, idCounter, commands, ops, json, reads, viewVars>>

\* history.canUndo()
CanUndo ==
    /\ last' = HistCall("canUndo", Null, "call", Given(canUndo(history)))
    /\ UNCHANGED <<heap, idCounter, history, commands, frames, track, ops, json, reads, viewVars>>

\* history.canRedo()
CanRedo ==
    /\ last' = HistCall("canRedo", Null, "call", Given(canRedo(history)))
    /\ UNCHANGED <<heap, idCounter, history, commands, frames, track, ops, json, reads, viewVars>>

\* history.clear(), called between commands
Clear ==
    /\ frames = <<>>
    /\ history' = clear(history)
    /\ last' = HistCall("clear", Null, "call", NoArg)
    /\ UNCHANGED <<heap, idCounter, commands, frames, track, ops, json, reads, viewVars>>

NextHistory ==
    \/ ExecuteSetText
    \/ ExecuteAddChild
    \/ ExecuteReturns
    \/ ExecuteThrows
    \/ Undo
    \/ UndoReturns
    \/ UndoThrows
    \/ Redo
    \/ RedoReturns
    \/ RedoThrows
    \/ CanUndo
    \/ CanRedo
    \/ Clear

SpecHistory == InitHistory /\ [][NextHistory]_vars

\* the last step was: method op got as far as step
Did(call, op, step) == call.op = op /\ call.step = step

\* C13: undo reverses the command on top of the undo stack and redo
\* re-applies the command on top of the redo stack, each moving that command
\* to the top of the other stack; when no command has failed the document
\* after an undo is the one from before the command was executed and the
\* document after a redo is the one from after it was executed. So after
\* C1, C2, C3 the calls undo(); undo(); redo() end with the document as it
\* was after C2, the undo stack [C1, C2] and the redo stack [C3].
C13_UndoRedoAreInverses ==
    [][ /\ Did(last', "undo", "enter") =>
              /\ last'.command = Top(history.undoStack)
              /\ history'.undoStack = Front(history.undoStack)
              /\ history'.redoStack = history.redoStack
        /\ Did(last', "undo", "return") =>
              /\ history'.redoStack = Append(history.redoStack, last'.command)
              /\ history'.undoStack = history.undoStack
              /\ ~track.failed =>
                    Document(heap') = track.docs[last'.command].before
        /\ Did(last', "redo", "enter") =>
              /\ last'.command = Top(history.redoStack)
              /\ history'.redoStack = Front(history.redoStack)
              /\ history'.undoStack = history.undoStack
        /\ Did(last', "redo", "return") =>
              /\ history'.undoStack = Append(history.undoStack, last'.command)
              /\ history'.redoStack = history.redoStack
              /\ ~track.failed =>
                    Document(heap') = track.docs[last'.command].after
      ]_vars

\* three commands that do not merge were executed, two undone and one redone:
\* the second is back on the undo stack and the document is the one it left,
\* which is neither the first's nor the third's
C13_Witness ==
    /\ Did(last, "redo", "return")
    /\ history.undoStack = <<1, 2>>
    /\ history.redoStack = <<3>>
    /\ ~track.failed
    /\ track.docs[1].merges = 0
    /\ Document(heap) = track.docs[2].after
    /\ track.docs[2].after # track.docs[1].after
    /\ track.docs[2].after # track.docs[3].after

\* command c is on one of the stacks of H or is being run by a call of fr
Held(H, fr, c) ==
    \/ c \in Elems(H.undoStack)
    \/ c \in Elems(H.redoStack)
    \/ \E i \in 1 .. Len(fr) : fr[i].command = c

\* C14: an execute that completes leaves the redo stack empty, so canRedo()
\* is false, and the commands that were on the redo stack are on no stack
\* from then on: a command that is on neither stack never comes back.
C14_ExecuteClearsRedo ==
    [][ /\ Did(last', "execute", "return") =>
              /\ history'.redoStack = <<>>
              /\ ~canRedo(history')
              /\ \A c \in Elems(history.redoStack) : ~Held(history', frames', c)
        /\ \A c \in 1 .. Len(commands) :
              ~Held(history, frames, c) => ~Held(history', frames', c)
      ]_vars

\* the second of three commands was executed and pushed, nothing was evicted,
\* cleared or failed, and it is on no stack after the third was executed: it
\* was undone before and the execute dropped it
C14_Witness ==
    /\ Did(last, "execute", "return")
    /\ last.command = 3
    /\ history.maxStackSize = 3
    /\ history.undoStack = <<1, 3>>
    /\ history.redoStack = <<>>
    /\ ~track.failed
    /\ track.docs[2].before # <<>>

\* C15 as stated: when the new command C2 accepts the top C1 of the undo
\* stack (C2.canMerge(C1)), executing C2 does not make the undo stack deeper.
C15_MergeWhenNewAcceptsTop ==
    [][ ( /\ Did(last', "execute", "return")
          /\ Len(history.undoStack) > 0
          /\ canMerge(commands, last'.command, Top(history.undoStack)) )
        => Len(history'.undoStack) <= Len(history.undoStack)
      ]_vars

\* C15: when the top C1 of the undo stack accepts the new command C2
\* (C1.canMerge(C2)), executing C2 leaves the undo stack as it is, C2 is on
\* no stack, and one undo() afterwards, of C1, brings the document back to
\* what it was before C1.
C15_MergeWhenTopAccepts ==
    [][ /\ ( /\ Did(last', "execute", "return")
             /\ Len(history.undoStack) > 0
             /\ canMerge(commands, Top(history.undoStack), last'.command) )
           => /\ history'.undoStack = history.undoStack
              /\ ~Held(history', frames', last'.command)
        /\ ( /\ Did(last', "undo", "return")
             /\ track.docs[last'.command].merges > 0
             /\ ~track.failed )
           => Document(heap') = track.docs[last'.command].before
      ]_vars

\* the first command set the text "x", a second one setting "y" was merged
\* into it, and one undo has brought the first text back
C15_Witness ==
    /\ Did(last, "undo", "return")
    /\ last.command = 1
    /\ track.docs[1].merges = 1
    /\ commands[1].text = "y"
    /\ commands[2].text = "y"
    /\ history.undoStack = <<>>
    /\ history.redoStack = <<1>>
    /\ heap[Original].text = "t0"

\* C16: a call made on the history while a command is running (the guard is
\* set) does not reach any command and changes nothing: execute returns at
\* once, undo and redo return false, canUndo and canRedo return false, and
\* the stacks, the commands and the document stay as they are.
C16_NestedCallsIgnored ==
    [][ (history.isExecuting /\ last'.step \in {"call", "enter"})
        => /\ last'.step = "call"
           /\ history' = history
           /\ frames' = frames
           /\ commands' = commands
           /\ heap' = heap
           /\ last'.op \in {"undo", "redo", "canUndo", "canRedo"} =>
                 last'.ret = Given(FALSE)
      ]_vars

\* canUndo() was called from inside a running command, with a command on
\* the undo stack, and returned false
C16_Witness ==
    /\ history.isExecuting
    /\ frames # <<>>
    /\ Did(last, "canUndo", "call")
    /\ last.ret = Given(FALSE)
    /\ Len(history.undoStack) > 0

\* C17: the undo stack never holds more than maxStackSize commands. An
\* execute that pushes onto a full stack removes the oldest command and
\* keeps the others in order, and a command that is on neither stack is
\* never on a stack again.
C17_UndoStackBounded ==
    [][ /\ Len(history'.undoStack) <= history'.maxStackSize
        /\ ( /\ Did(last', "execute", "return")
             /\ Len(history.undoStack) = history.maxStackSize
             /\ ~canMerge(commands, Top(history.undoStack), last'.command) )
           => /\ history'.undoStack =
                    Append(Tail(history.undoStack), last'.command)
              /\ ~Held(history', frames', Head(history.undoStack))
        /\ \A c \in 1 .. Len(commands) :
              (~Held(history, frames, c) /\ Did(last', "undo", "enter"))
                  => last'.command # c
        /\ \A c \in 1 .. Len(commands) :
              (~Held(history, frames, c) /\ Did(last', "redo", "enter"))
                  => last'.command # c
      ]_vars

\* a third command was pushed on a stack of capacity two that held the first
\* two: the first is gone and the other two are in order
C17_Witness ==
    /\ Did(last, "execute", "return")
    /\ last.command = 3
    /\ history.maxStackSize = 2
    /\ history.undoStack = <<2, 3>>
    /\ ~track.failed
    /\ track.docs[1].before # <<>>
    /\ track.docs[1].merges = 0

\* C18: when command.execute() throws inside history.execute(command), the
\* call ends by the throw with the guard released and both stacks as they
\* were when the call was made, and the next execute, undo or redo is not
\* ignored.
C18_ExecuteThrowKeepsStacks ==
    [][ Did(last', "execute", "throw")
        => /\ ~history'.isExecuting
           /\ history'.undoStack = Top(frames).entry.undoStack
           /\ history'.redoStack = Top(frames).entry.redoStack
           /\ executeEnter(history').entered
           /\ Len(history'.undoStack) > 0 => undoEnter(history').entered
           /\ Len(history'.redoStack) > 0 => redoEnter(history').entered
      ]_vars

\* a command threw in execute while there were commands on both stacks, and
\* both stacks are still there
C18_Witness ==
    /\ Did(last, "execute", "throw")
    /\ ~history.isExecuting
    /\ frames = <<>>
    /\ Len(history.undoStack) > 0
    /\ Len(history.redoStack) > 0

\* C19: when the command's undo() throws inside history.undo(), or its
\* redo() inside history.redo(), the guard is released and both stacks are
\* as they were when the call was made, the command still on its stack.
C19_UndoRedoThrowKeepsCommand ==
    [][ (Did(last', "undo", "throw") \/ Did(last', "redo", "throw"))
        => /\ ~history'.isExecuting
           /\ history'.undoStack = Top(frames).entry.undoStack
           /\ history'.redoStack = Top(frames).entry.redoStack
      ]_vars

\* C20: undo() on an empty undo stack returns false and changes nothing;
\* otherwise it calls undo() of the top command, once, moves that command to
\* the top of the redo stack and returns true; redo() is the same with the
\* stacks exchanged. For an add-child command on the root, root.count() goes
\* up by one on execute, down by one on undo and up by one on redo, after
\* which canUndo() is true.
C20_UndoRedoMoveTop ==
    [][ /\ (Did(last', "undo", "call") /\ ~history.isExecuting)
           => /\ Len(history.undoStack) = 0
              /\ last'.ret = Given(FALSE)
              /\ UNCHANGED <<history, heap, commands, frames>>
        /\ (Did(last', "redo", "call") /\ ~history.isExecuting)
           => /\ Len(history.redoStack) = 0
              /\ last'.ret = Given(FALSE)
              /\ UNCHANGED <<history, heap, commands, frames>>
        /\ Did(last', "undo", "enter")
           => /\ Len(history.undoStack) > 0
              /\ frames' = Append(frames, Top(frames'))
              /\ Top(frames').op = "undo"
              /\ Top(frames').command = Top(history.undoStack)
        /\ Did(last', "redo", "enter")
           => /\ Len(history.redoStack) > 0
              /\ frames' = Append(frames, Top(frames'))
              /\ Top(frames').op = "redo"
              /\ Top(frames').command = Top(history.redoStack)
        /\ Did(last', "undo", "return")
           => /\ last'.ret = Given(TRUE)
              /\ frames' = Front(frames)
              /\ history'.redoStack =
                    Append(Top(frames).entry.redoStack, Top(frames).command)
              /\ history'.undoStack = Front(Top(frames).entry.undoStack)
              /\ commands[last'.command].kind = "addChild" =>
                    count(heap', Original) = count(heap, Original) - 1
        /\ Did(last', "redo", "return")
           => /\ last'.ret = Given(TRUE)
              /\ frames' = Front(frames)
              /\ history'.undoStack =
                    Append(Top(frames).entry.undoStack, Top(frames).command)
              /\ history'.redoStack = Front(Top(frames).entry.redoStack)
              /\ canUndo(history')
              /\ canRedo(history') = (Len(Top(frames).entry.redoStack) > 1)
              /\ commands[last'.command].kind = "addChild" =>
                    count(heap', Original) = count(heap, Original) + 1
        /\ (Did(last', "execute", "return")
                /\ commands[last'.command].kind = "addChild")
           => count(heap', Original) = count(heap, Original) + 1
      ]_vars

\* an add-child command was executed, undone and redone: the root counts two
\* nodes, canUndo() is true and canRedo() is false
C20_Witness ==
    /\ Did(last, "redo", "return")
    /\ last.command = 1
    /\ commands[1].kind = "addChild"
    /\ Len(commands) = 1
    /\ count(heap, Original) = 2
    /\ canUndo(history)
    /\ ~canRedo(history)

----------------------------------------------------------------------------
(* The history with commands that are not BaseCommands *)

\* history.execute({ name, execute, undo }): a text edit given as an object
\* with the required members of Command only
ExecutePlain ==
    /\ Len(commands) < MaxCommands
    /\ \E edit \in TextEdits :
         Execute(Append(commands, PlainSetTextCommand(Original, edit.text)),
                 heap, idCounter)

\* c.execute() returns and lastCommand.canMerge is undefined: the call
\* lastCommand.canMerge(command) throws a TypeError out of history.execute
ExecuteTypeError ==
    /\ frames # <<>>
    /\ Top(frames).op = "execute"
    /\ Len(history.undoStack) > 0
    /\ ~HasMethod(commands, Top(history.undoStack), "canMerge")
    /\ LET c == Top(frames).command
           r == commandExecute(commands, heap, c)
       IN  /\ heap' = r.heap
           /\ commands' = r.commands
           /\ last' = HistCall("execute", c, "throw", NoArg)
    /\ history' = executeThrow(history)
    /\ track' = [track EXCEPT !.failed = TRUE]
    /\ frames' = Front(frames)
    /\ UNCHANGED <<idCounter, ops, json, reads, viewVars>>

\* command.redo is undefined: the call command.redo() throws a TypeError out
\* of history.redo
RedoTypeError ==
    /\ frames # <<>>
    /\ Top(frames).op = "redo"
    /\ ~HasMethod(commands, Top(frames).command, "redo")
    /\ history' = redoThrow(history)
    /\ track' = [track EXCEPT !.failed = TRUE]
    /\ last' = HistCall("redo", Top(frames).command, "throw", NoArg)
    /\ frames' = Front(frames)
    /\ UNCHANGED <<heap, idCounter, commands, ops, json, reads, viewVars>>

NextInterface ==
    \/ ExecutePlain
    \/ ExecuteAddChild
    \/ ExecuteReturns
    \/ ExecuteTypeError
    \/ Undo
    \/ UndoReturns
    \/ Redo
    \/ RedoReturns
    \/ RedoTypeError

SpecInterface == InitHistory /\ [][NextInterface]_vars

\* C21: once history.redo() has taken a command off the redo stack, the call
\* ends by returning true, with the command's execute() applied once and the
\* command on top of the undo stack, whatever command it is.
C21_RedoReappliesEveryCommand ==
    [][ (frames # <<>> /\ Top(frames).op = "redo" /\ frames' = Front(frames))
        => /\ Did(last', "redo", "return")
           /\ last'.ret = Given(TRUE)
           /\ heap' = commandExecute(commands, heap, Top(frames).command).heap
           /\ history'.undoStack =
                 Append(history.undoStack, Top(frames).command)
           /\ history'.redoStack = history.redoStack
      ]_vars

----------------------------------------------------------------------------
(* JavaScript numbers *)

(***************************************************************************)
(* A JavaScript number is a binary floating-point value: a significand of  *)
(* a fixed number of bits times a power of two, and every arithmetic       *)
(* operation returns the representable value nearest to the exact result   *)
(* (ties to the even significand).  IEEE 754 binary64 keeps 53 bits; the   *)
(* model keeps Precision bits and leaves the exponent unbounded, so no     *)
(* operation overflows to Infinity or underflows.  A number is the record  *)
(* [m, e] that stands for m * 2^e, with m odd, or [0, 0] for zero.         *)
(***************************************************************************)
Precision == 8

Abs(n) == IF n < 0 THEN -n ELSE n

Sign(n) == IF n < 0 THEN -1 ELSE IF n = 0 THEN 0 ELSE 1

\* the number of bits of the natural number n
RECURSIVE BitLength(_)
BitLength(n) == IF n = 0 THEN 0 ELSE 1 + BitLength(n \div 2)

\* the one record that stands for m * 2^e
RECURSIVE Normal(_, _)
Normal(m, e) ==
    IF m = 0 THEN [m |-> 0, e |-> 0]
    ELSE IF m % 2 = 0 THEN Normal(m \div 2, e + 1)
    ELSE [m |-> m, e |-> e]

\* m * 2^e rounded to Precision bits, to nearest, ties to even
Round(m, e) ==
    LET a == Abs(m)
        s == BitLength(a) - Precision
    IN  IF s <= 0 THEN Normal(m, e)
        ELSE LET q == a \div (2 ^ s)
                 r == a % (2 ^ s)
                 half == 2 ^ (s - 1)
                 up == r > half \/ (r = half /\ q % 2 = 1)
             IN  Normal(Sign(m) * (IF up THEN q + 1 ELSE q), e + s)

\* the position of the leading bit of a nonzero number
Magnitude(a) == a.e + BitLength(Abs(a.m))

Neg(a) == [m |-> -a.m, e |-> a.e]

\* a + b
Plus(a, b) ==
    IF a.m = 0 THEN b
    ELSE IF b.m = 0 THEN a
    ELSE IF Magnitude(a) - Magnitude(b) > Precision + 2 THEN a
    ELSE IF Magnitude(b) - Magnitude(a) > Precision + 2 THEN b
    ELSE LET e == IF a.e < b.e THEN a.e ELSE b.e
         IN  Round(a.m * 2 ^ (a.e - e) + b.m * 2 ^ (b.e - e), e)

\* a - b
Minus(a, b) == Plus(a, Neg(b))

\* a * b
Times(a, b) == Round(a.m * b.m, a.e + b.e)

\* a / b for b # 0: the quotient is taken to Precision + 2 bits and more, and
\* a last bit records whether anything was left over
Over(a, b) ==
    LET k == Precision + 2 + BitLength(Abs(b.m))
        n == Abs(a.m) * 2 ^ k
        q == n \div Abs(b.m)
        sticky == IF n % Abs(b.m) = 0 THEN 0 ELSE 1
    IN  Round(Sign(a.m) * Sign(b.m) * (2 * q + sticky), a.e - b.e - k - 1)

\* a < b, a <= b: rounding never changes the sign of a difference
Less(a, b) == Minus(a, b).m < 0
LessEq(a, b) == Minus(a, b).m <= 0

\* the number an integer literal denotes, and the number a decimal literal
\* n/d denotes
Num(n) == Round(n, 0)
Dec(n, d) == Over(Num(n), Num(d))

Zero == Num(0)
One == Num(1)

\* Math.min(a, b), Math.max(a, b)
Math_min(a, b) == IF Less(b, a) THEN b ELSE a
Math_max(a, b) == IF Less(a, b) THEN b ELSE a

\* Math.pow(a, 3)
Math_pow3(a) == Round(a.m * a.m * a.m, 3 * a.e)

\* Math.abs(a)
Math_abs(a) == [m |-> Abs(a.m), e |-> a.e]

\* a point or a translation
Point(x, y) == [x |-> x, y |-> y]

\* `obj.k || dflt` for a key that holds a number: 0 and a missing key are falsy
OrNum(obj, k, dflt) == IF Has(obj, k) /\ obj[k] # Zero THEN obj[k] ELSE dflt

\* helpers.ts: clamp(value, min, max)
clamp(value, min, max) == Math_min(Math_max(value, min), max)

\* helpers.ts: lerp(start, end, t)
lerp(start, end, t) == Plus(start, Times(Minus(end, start), t))

\* helpers.ts: easeInOutCubic(t)
easeInOutCubic(t) ==
    IF Less(t, Dec(5, 10))
    THEN Times(Times(Times(Num(4), t), t), t)
    ELSE Minus(One, Over(Math_pow3(Plus(Times(Num(-2), t), Num(2))), Num(2)))

----------------------------------------------------------------------------
(* Viewport *)

(***************************************************************************)
(* The Viewport object, the clock it reads and the frame callbacks it has  *)
(* asked for.  requestAnimationFrame keeps the callback until the frame    *)
(* comes or cancelAnimationFrame takes it away; the callback `animate` of  *)
(* animateTransform is the record of what its closure captured (start,     *)
(* target, startTime), numbered by the transition it belongs to.  No       *)
(* handler is subscribed to the event bus: the notifications a call        *)
(* publishes are recorded in `last`.                                       *)
(***************************************************************************)

\* constants.ts: EVENTS.ZOOM_CHANGE, EVENTS.PAN_CHANGE, ANIMATION.zoomDuration
ZOOM_CHANGE == "zoom:change"
PAN_CHANGE == "pan:change"
zoomDuration == 150

\* container.getBoundingClientRect()
Surface == [width |-> Num(800), height |-> Num(600)]

\* eventBus.emit(name, payload)
Emit(name, payload) == [name |-> name, payload |-> payload]

Translation(transform) == Point(transform.x, transform.y)

\* new Viewport(container, eventBus, options)
NewViewport(options) ==
    [transform |->
        [x |-> IF Has(options, "initialPosition")
               THEN options.initialPosition.x ELSE Zero,
         y |-> IF Has(options, "initialPosition")
               THEN options.initialPosition.y ELSE Zero,
         scale |-> OrNum(options, "initialScale", One)],
     minScale |-> OrNum(options, "minScale", Dec(1, 10)),
     maxScale |-> OrNum(options, "maxScale", Num(5)),
     zoomSpeed |-> OrNum(options, "zoomSpeed", Dec(1, 10)),
     isDragging |-> FALSE,
     dragStart |-> Point(Zero, Zero),
     dragOffset |-> Point(Zero, Zero),
     animationId |-> Null]

\* no frame callback has been asked for
NoFrames == [pending |-> {}, issued |-> 0, started |-> 0]

\* requestAnimationFrame(callback): the callback waits under a new id
requestAnimationFrame(r, callback) ==
    [r EXCEPT !.pending = @ \cup {[id |-> r.issued + 1, callback |-> callback]},
              !.issued = @ + 1]

\* cancelAnimationFrame(id)
cancelAnimationFrame(r, id) ==
    [r EXCEPT !.pending = {f \in @ : f.id # id}]

\* getTransform()
getTransform(v) == v.transform

\* applyTransform(transform)
applyTransform(v, transform) ==
    [viewport |-> [v EXCEPT !.transform = transform],
     events |-> << Emit(ZOOM_CHANGE, transform.scale),
                   Emit(PAN_CHANGE, Translation(transform)) >>]

\* `progress` in animate(), run when Date.now() is t.  Date.now() returns
\* integers a number holds exactly, so their difference is exact.
Progress(callback, t) ==
    Math_min(Over(Num(t - callback.startTime), Num(zoomDuration)), One)

\* the closure animate() of animateTransform, run when Date.now() is t
animate(v, r, callback, t) ==
    LET progress == Progress(callback, t)
        tt == easeInOutCubic(progress)
        start == callback.start
        target == callback.target
        a == applyTransform(v, [x |-> lerp(start.x, target.x, tt),
                                y |-> lerp(start.y, target.y, tt),
                                scale |-> lerp(start.scale, target.scale, tt)])
        r2 == requestAnimationFrame(r, callback)
    IN  IF Less(progress, One)
        THEN [viewport |-> [a.viewport EXCEPT !.animationId = r2.issued],
              raf |-> r2, events |-> a.events]
        ELSE [viewport |-> [a.viewport EXCEPT !.animationId = Null],
              raf |-> r, events |-> a.events]

\* animateTransform(target) that leaves the frame callback of the transition
\* in flight where it is
animateTransform_KeepsFrame(v, r, target, t) ==
    LET callback == [start |-> v.transform, target |-> target, startTime |-> t,
                     transition |-> r.started + 1]
    IN  animate(v, [r EXCEPT !.started = @ + 1], callback, t)

\* animateTransform(target), called when Date.now() is t
animateTransform(v, r, target, t) ==
    LET r1 == IF v.animationId # Null
              THEN cancelAnimationFrame(r, v.animationId)
              ELSE r
        callback == [start |-> v.transform, target |-> target, startTime |-> t,
                     transition |-> r.started + 1]
    IN  animate(v, [r1 EXCEPT !.started = @ + 1], callback, t)

\* setTransform(transform, animate), called when Date.now() is t; `transform`
\* holds any of the keys x, y, scale
setTransform(v, r, transform, animated, t) ==
    LET newTransform ==
            [x |-> IF Has(transform, "x") THEN transform.x ELSE v.transform.x,
             y |-> IF Has(transform, "y") THEN transform.y ELSE v.transform.y,
             scale |-> IF Has(transform, "scale")
                       THEN clamp(transform.scale, v.minScale, v.maxScale)
                       ELSE v.transform.scale]
    IN  IF animated
        THEN animateTransform(v, r, newTransform, t)
        ELSE LET a == applyTransform(v, newTransform)
             IN  [viewport |-> a.viewport, raf |-> r, events |-> a.events]

\* zoom(delta, center) that scales about the origin whatever the center
zoom_KeepsTranslation(v, delta, center) ==
    LET factor == Plus(One, Times(delta, v.zoomSpeed))
        newScale == clamp(Times(v.transform.scale, factor), v.minScale, v.maxScale)
    IN  IF newScale = v.transform.scale
        THEN [viewport |-> v, events |-> <<>>]
        ELSE [viewport |-> [v EXCEPT !.transform.scale = newScale],
              events |-> << Emit(ZOOM_CHANGE, newScale) >>]

\* zoom(delta, center) without the early return
zoom_AlwaysPublishes(v, delta, center) ==
    LET factor == Plus(One, Times(delta, v.zoomSpeed))
        newScale == clamp(Times(v.transform.scale, factor), v.minScale, v.maxScale)
    IN  [viewport |-> [v EXCEPT !.transform.scale = newScale],
         events |-> << Emit(ZOOM_CHANGE, newScale) >>]

\* zoom(delta, center)
zoom(v, delta, center) ==
    LET factor == Plus(One, Times(delta, v.zoomSpeed))
        newScale == clamp(Times(v.transform.scale, factor), v.minScale, v.maxScale)
        ratio == Over(newScale, v.transform.scale)
        moved(p, c) == Minus(c, Times(Minus(c, p), ratio))
    IN  IF newScale = v.transform.scale
        THEN [viewport |-> v, events |-> <<>>]
        ELSE [viewport |->
                [v EXCEPT !.transform =
                    [x |-> IF center # Omitted
                           THEN moved(v.transform.x, center[1].x)
                           ELSE v.transform.x,
                     y |-> IF center # Omitted
                           THEN moved(v.transform.y, center[1].y)
                           ELSE v.transform.y,
                     scale |-> newScale]],
              events |-> << Emit(ZOOM_CHANGE, newScale) >>]

\* zoomIn(center), zoomOut(center)
zoomIn(v, center) == zoom(v, Num(1), center)
zoomOut(v, center) == zoom(v, Num(-1), center)

\* resetZoom(animate), called when Date.now() is t
resetZoom(v, r, animated, t) == setTransform(v, r, [scale |-> One], animated, t)

\* pan(dx, dy)
pan(v, dx, dy) ==
    LET moved == [v.transform EXCEPT !.x = Plus(@, dx), !.y = Plus(@, dy)]
    IN  [viewport |-> [v EXCEPT !.transform = moved],
         events |-> << Emit(PAN_CHANGE, Translation(moved)) >>]

\* centerTo(point, animate), called when Date.now() is t
centerTo(v, r, point, animated, t) ==
    LET centerX == Over(Surface.width, Num(2))
        centerY == Over(Surface.height, Num(2))
    IN  setTransform(v, r,
                     [x |-> Minus(centerX, Times(point.x, v.transform.scale)),
                      y |-> Minus(centerY, Times(point.y, v.transform.scale))],
                     animated, t)

\* the transform fitBounds(bounds, padding) hands to setTransform
fitTransform(v, bounds, padding) ==
    LET boundsWidth == Minus(bounds.maxX, bounds.minX)
        boundsHeight == Minus(bounds.maxY, bounds.minY)
        scaleX == Over(Minus(Surface.width, Times(padding, Num(2))), boundsWidth)
        scaleY == Over(Minus(Surface.height, Times(padding, Num(2))), boundsHeight)
        scale == clamp(Math_min(scaleX, scaleY), v.minScale, v.maxScale)
        centerX == Over(Plus(bounds.minX, bounds.maxX), Num(2))
        centerY == Over(Plus(bounds.minY, bounds.maxY), Num(2))
    IN  [x |-> Minus(Over(Surface.width, Num(2)), Times(centerX, scale)),
         y |-> Minus(Over(Surface.height, Num(2)), Times(centerY, scale)),
         scale |-> scale]

\* fitBounds(bounds, padding, animate), called when Date.now() is t
fitBounds(v, r, bounds, padding, animated, t) ==
    setTransform(v, r, fitTransform(v, bounds, padding), animated, t)

\* getVisibleBounds()
getVisibleBounds(v) ==
    LET x == v.transform.x
        y == v.transform.y
        scale == v.transform.scale
    IN  [minX |-> Over(Neg(x), scale),
         minY |-> Over(Neg(y), scale),
         maxX |-> Over(Minus(Surface.width, x), scale),
         maxY |-> Over(Minus(Surface.height, y), scale)]

\* screenToWorld(point) that only divides by the scale
screenToWorld_IgnoresTranslation(v, point) ==
    Point(Over(point.x, v.transform.scale), Over(point.y, v.transform.scale))

\* screenToWorld(point)
screenToWorld(v, point) ==
    Point(Over(Minus(point.x, v.transform.x), v.transform.scale),
          Over(Minus(point.y, v.transform.y), v.transform.scale))

\* worldToScreen(point)
worldToScreen(v, point) ==
    Point(Plus(Times(point.x, v.transform.scale), v.transform.x),
          Plus(Times(point.y, v.transform.scale), v.transform.y))

\* startDrag(point)
startDrag(v, point) ==
    [v EXCEPT !.isDragging = TRUE,
              !.dragStart = point,
              !.dragOffset = Translation(v.transform)]

\* drag(point) that adds the movement to the current translation
drag_Incremental(v, point) ==
    LET moved == [v.transform EXCEPT
                    !.x = Plus(@, Minus(point.x, v.dragStart.x)),
                    !.y = Plus(@, Minus(point.y, v.dragStart.y))]
    IN  IF ~v.isDragging
        THEN [viewport |-> v, events |-> <<>>]
        ELSE [viewport |-> [v EXCEPT !.transform = moved],
              events |-> << Emit(PAN_CHANGE, Translation(moved)) >>]

\* drag(point)
drag(v, point) ==
    LET moved == [v.transform EXCEPT
                    !.x = Plus(v.dragOffset.x, Minus(point.x, v.dragStart.x)),
                    !.y = Plus(v.dragOffset.y, Minus(point.y, v.dragStart.y))]
    IN  IF ~v.isDragging
        THEN [viewport |-> v, events |-> <<>>]
        ELSE [viewport |-> [v EXCEPT !.transform = moved],
              events |-> << Emit(PAN_CHANGE, Translation(moved)) >>]

\* endDrag()
endDrag(v) == [v EXCEPT !.isDragging = FALSE]

\* get dragging()
dragging(v) == v.isDragging

\* destroy()
destroy(v, r) ==
    IF v.animationId # Null
    THEN [viewport |-> [v EXCEPT !.animationId = Null],
          raf |-> cancelAnimationFrame(r, v.animationId)]
    ELSE [viewport |-> v, raf |-> r]

----------------------------------------------------------------------------
(* EventBus *)

(***************************************************************************)
(* `events` is a Map from event names to Sets of handlers.  The Map is a   *)
(* function on the names that have an entry, and a Set is the sequence of  *)
(* its elements in insertion order, which is the order forEach visits     *)
(* them in.  forEach runs over the live Set: an element deleted before its *)
(* turn is not visited and an element added during the loop is.  While an  *)
(* emit is running a deleted element leaves the mark Deleted at its place, *)
(* so that the positions of the others do not move; between calls no Set   *)
(* holds a mark.                                                           *)
(*                                                                         *)
(* A handler is a function object.  The functions given to the bus are     *)
(* named by what they do when called:                                      *)
(*   "quiet"      returns                                                  *)
(*   "thrower"    throws                                                   *)
(*   "remover"    calls bus.off(event, quiet) for the event it is given to *)
(*   "adder"      calls bus.on(event, quiet) for the event it is given to  *)
(*   "emitter"    the first time it is called, calls bus.emit(event, data) *)
(*                for the event it is given to                             *)
(*   "restarter"  the first time it is called, calls                       *)
(*                viewport.setTransform(RestartTarget, true)               *)
(* and the wrapper that once(event, h) creates is "once" with h and with   *)
(* the slot that tells it from the other wrappers registered.              *)
(***************************************************************************)

Function(fn) == [fn |-> fn, of |-> "", slot |-> 0]
Wrapper(of, slot) == [fn |-> "once", of |-> of, slot |-> slot]
Deleted == [fn |-> "", of |-> "", slot |-> 0]

\* new EventBus(), and no function called yet
NewEventBus == [events |-> <<>>, fired |-> {}]

\* the elements of a Set, and handlers.size
Elements(handlers) == SelectSeq(handlers, LAMBDA h : h # Deleted)
size(handlers) == Len(Elements(handlers))

\* handlers.add(handler)
SetAdd(handlers, handler) ==
    IF \E i \in DOMAIN handlers : handlers[i] = handler
    THEN handlers
    ELSE Append(handlers, handler)

\* handlers.delete(handler)
SetDelete(handlers, handler) ==
    [i \in DOMAIN handlers |->
        IF handlers[i] = handler THEN Deleted ELSE handlers[i]]

\* this.events.delete(event)
MapDelete(events, event) == [e \in DOMAIN events \ {event} |-> events[e]]

\* on(event, handler): `events` afterwards
on(events, event, handler) ==
    LET map == IF event \in DOMAIN events
               THEN events
               ELSE [e \in DOMAIN events \cup {event} |->
                        IF e = event THEN <<>> ELSE events[e]]
    IN  [map EXCEPT ![event] = SetAdd(@, handler)]

\* off(event, handler), handler given or not
off(events, event, handler) ==
    IF handler = Omitted
    THEN MapDelete(events, event)
    ELSE IF event \in DOMAIN events
         THEN LET handlers == SetDelete(events[event], handler[1])
              IN  IF size(handlers) = 0
                  THEN MapDelete(events, event)
                  ELSE [events EXCEPT ![event] = handlers]
         ELSE events

\* the wrapper once(event, handler) creates: a function that no Set holds yet
NewWrapper(events, handler) ==
    LET used == UNION {{events[e][i].slot : i \in DOMAIN events[e]} : e \in DOMAIN events}
    IN  Wrapper(handler.fn, CHOOSE n \in 1 .. Cardinality(used) + 1 : n \notin used)

\* once(event, handler)
once(events, event, handler) == on(events, event, NewWrapper(events, handler))

\* clear()
clearEvents(events) == <<>>

\* listenerCount(event), event given or not
listenerCount(events, event) ==
    IF event # Omitted
    THEN IF event[1] \in DOMAIN events THEN size(events[event[1]]) ELSE 0
    ELSE LET names == DOMAIN events
             RECURSIVE Sum(_)
             Sum(S) == IF S = {} THEN 0
                       ELSE LET e == CHOOSE e \in S : TRUE
                            IN  size(events[e]) + Sum(S \ {e})
         IN  Sum(names)

\* The state a call of emit runs on: the bus, the viewport and the frame
\* callbacks the handlers may reach, the clock, and what was called so far:
\*   calls   the functions called, each with the event and the data it got,
\*           by whom (emit or a wrapper) and in which emit (0 the emit the
\*           caller made, 1 an emit made by a handler of that one, ...)
\*   errors  the number of exceptions emit caught and logged
\*   removed the handlers that off was called with
Dispatch(b, v, r, t) ==
    [events |-> b.events, fired |-> b.fired, viewport |-> v, raf |-> r,
     now |-> t, calls |-> <<>>, errors |-> 0, removed |-> {}]

Logged(W, handler, by, event, data, depth) ==
    [W EXCEPT !.calls = Append(@, [handler |-> handler, by |-> by, event |-> event,
                                    data |-> data, depth |-> depth])]

\* the transform the restarter asks for
RestartTarget == [x |-> Num(40)]

RECURSIVE emit(_, _, _, _)
RECURSIVE forEach(_, _, _, _, _)
RECURSIVE Apply(_, _, _, _, _)
RECURSIVE Viewport_applyTransform(_, _, _)
RECURSIVE Viewport_animate(_, _, _)
RECURSIVE Viewport_animateTransform(_, _, _)
RECURSIVE Viewport_setTransform(_, _, _, _)

\* handler(data), for a handler registered for `event`: the state afterwards
\* and whether the call ended by a throw
Apply(W, handler, event, data, depth) ==
    CASE handler.fn = "once" ->
             \* handler(data); this.off(event, wrapper)
             LET r == Apply(Logged(W, Function(handler.of), handler, event, data, depth),
                            Function(handler.of), event, data, depth)
             IN  IF r.thrown
                 THEN r
                 ELSE [state |-> [r.state EXCEPT
                                     !.events = off(@, event, Given(handler)),
                                     !.removed = @ \cup {handler}],
                       thrown |-> FALSE]
      [] handler.fn = "quiet" ->
             [state |-> W, thrown |-> FALSE]
      [] handler.fn = "thrower" ->
             [state |-> W, thrown |-> TRUE]
      [] handler.fn = "remover" ->
             [state |-> [W EXCEPT !.events = off(@, event, Given(Function("quiet"))),
                                  !.removed = @ \cup {Function("quiet")}],
              thrown |-> FALSE]
      [] handler.fn = "adder" ->
             [state |-> [W EXCEPT !.events = on(@, event, Function("quiet"))],
              thrown |-> FALSE]
      [] handler.fn = "emitter" ->
             IF "emitter" \in W.fired
             THEN [state |-> W, thrown |-> FALSE]
             ELSE [state |-> emit([W EXCEPT !.fired = @ \cup {"emitter"}],
                                  event, data, depth + 1),
                   thrown |-> FALSE]
      [] handler.fn = "restarter" ->
             IF "restarter" \in W.fired
             THEN [state |-> W, thrown |-> FALSE]
             ELSE [state |-> Viewport_setTransform(
                                 [W EXCEPT !.fired = @ \cup {"restarter"}],
                                 RestartTarget, TRUE, depth + 1),
                   thrown |-> FALSE]

RECURSIVE forEach_Unguarded(_, _, _, _, _)
forEach_Unguarded(W, event, i, data, depth) ==
    IF event \notin DOMAIN W.events \/ i > Len(W.events[event])
    THEN W
    ELSE LET handler == W.events[event][i]
         IN  IF handler = Deleted
             THEN forEach_Unguarded(W, event, i + 1, data, depth)
             ELSE LET r == Apply(Logged(W, handler, Function("emit"), event, data, depth),
                                 handler, event, data, depth)
                  IN  IF r.thrown
                      THEN [r.state EXCEPT !.errors = @ + 1]
                      ELSE forEach_Unguarded(r.state, event, i + 1, data, depth)

\* handlers.forEach(handler => { try { handler(data) } catch { log } }), from
\* position i of the Set on. A Set whose Map entry is gone has no element
\* left and gets none: the functions of the model remove an entry only by
\* removing its last handler, and add a handler only to the Set they are in.
forEach(W, event, i, data, depth) ==
    IF event \notin DOMAIN W.events \/ i > Len(W.events[event])
    THEN W
    ELSE LET handler == W.events[event][i]
         IN  IF handler = Deleted
             THEN forEach(W, event, i + 1, data, depth)
             ELSE LET r == Apply(Logged(W, handler, Function("emit"), event, data, depth),
                                 handler, event, data, depth)
                  IN  forEach(IF r.thrown
                              THEN [r.state EXCEPT !.errors = @ + 1]
                              ELSE r.state,
                              event, i + 1, data, depth)

\* emit(event, data), made in emit number `depth`
emit(W, event, data, depth) ==
    IF event \in DOMAIN W.events
    THEN forEach(W, event, 1, data, depth)
    ELSE W

\* Viewport.applyTransform(transform), on a bus that has handlers
Viewport_applyTransform(W, transform, depth) ==
    LET W1 == [W EXCEPT !.viewport.transform = transform]
        W2 == emit(W1, ZOOM_CHANGE, W1.viewport.transform.scale, depth)
    IN  emit(W2, PAN_CHANGE, Translation(W2.viewport.transform), depth)

\* the closure animate() of animateTransform, on a bus that has handlers
Viewport_animate(W, callback, depth) ==
    LET progress == Progress(callback, W.now)
        tt == easeInOutCubic(progress)
        start == callback.start
        target == callback.target
        W1 == Viewport_applyTransform(W,
                  [x |-> lerp(start.x, target.x, tt),
                   y |-> lerp(start.y, target.y, tt),
                   scale |-> lerp(start.scale, target.scale, tt)], depth)
        r2 == requestAnimationFrame(W1.raf, callback)
    IN  IF Less(progress, One)
        THEN [W1 EXCEPT !.viewport.animationId = r2.issued, !.raf = r2]
        ELSE [W1 EXCEPT !.viewport.animationId = Null]

\* Viewport.animateTransform(target), on a bus that has handlers
Viewport_animateTransform(W, target, depth) ==
    LET r1 == IF W.viewport.animationId # Null
              THEN cancelAnimationFrame(W.raf, W.viewport.animationId)
              ELSE W.raf
        callback == [start |-> W.viewport.transform, target |-> target,
                     startTime |-> W.now, transition |-> W.raf.started + 1]
    IN  Viewport_animate([W EXCEPT !.raf = [r1 EXCEPT !.started = @ + 1]],
                         callback, depth)

\* Viewport.setTransform(transform, animate), on a bus that has handlers
Viewport_setTransform(W, transform, animated, depth) ==
    LET v == W.viewport
        newTransform ==
            [x |-> IF Has(transform, "x") THEN transform.x ELSE v.transform.x,
             y |-> IF Has(transform, "y") THEN transform.y ELSE v.transform.y,
             scale |-> IF Has(transform, "scale")
                       THEN clamp(transform.scale, v.minScale, v.maxScale)
                       ELSE v.transform.scale]
    IN  IF animated
        THEN Viewport_animateTransform(W, newTransform, depth)
        ELSE Viewport_applyTransform(W, newTransform, depth)

\* the Map when the call has returned: no Set holds a mark
Compact(events) == [e \in DOMAIN events |-> Elements(events[e])]

\* the bus when the call has returned
Settled(W) == [events |-> Compact(W.events), fired |-> W.fired]

----------------------------------------------------------------------------
(* The viewport in use: any calls, frames and clock readings *)

docVars == <<heap, idCounter, json, reads>>

\* the options the constructor is given
ViewportOptions ==
    { EmptyObj,
      [initialScale |-> Num(10)],
      [minScale |-> Dec(5, 10), maxScale |-> Num(2), zoomSpeed |-> Dec(2, 10),
       initialScale |-> Dec(7, 10), initialPosition |-> Point(Num(10), Num(20))] }

\* the transforms setTransform is given
Transforms ==
    { [scale |-> Dec(1, 10)],
      [x |-> Num(50), y |-> Num(125), scale |-> Num(6)] }

\* surface points, document points, pan deltas, bounds
Anchor == Point(Num(100), Num(50))
Points == { Point(Num(3), Num(3)), Anchor }
Deltas == { Num(0), Num(2) }
Bounds ==
    { [minX |-> Zero, minY |-> Zero, maxX |-> Num(1000), maxY |-> Num(500)],
      [minX |-> Zero, minY |-> Zero, maxX |-> Num(8000), maxY |-> Num(4000)] }

\* the time between two readings of the clock that differ
FrameGap == zoomDuration \div 2

\* the last call on the viewport: its arguments, the notifications it
\* published in order, what it returned, and for a step of a transition which
\* transition and with what progress
ViewCall(op, arg, events, ret) ==
    [op |-> op, arg |-> arg, events |-> events, ret |-> ret,
     transition |-> 0, progress |-> Zero]

Step(callback, t, events) ==
    [op |-> "animate", arg |-> EmptyObj, events |-> events, ret |-> NoArg,
     transition |-> callback.transition, progress |-> Progress(callback, t)]

InitViewport ==
    /\ \E options \in ViewportOptions :
         /\ viewport = NewViewport(options)
         /\ last = ViewCall("new", options, <<>>, NoArg)
    /\ raf = NoFrames
    /\ now = 0
    /\ bus = NewEventBus
    /\ ops = 0
    /\ heap = <<>>
    /\ idCounter = 0
    /\ json = <<>>
    /\ reads = <<>>
    /\ NoHistory

\* a call that may start a transition: the first step runs inside the call
Started(op, arg, r) ==
    /\ viewport' = r.viewport
    /\ raf' = r.raf
    /\ last' = IF r.raf.started = raf.started
               THEN ViewCall(op, arg, r.events, NoArg)
               ELSE [ViewCall(op, arg, r.events, NoArg) EXCEPT
                        !.transition = r.raf.started]
    /\ ops' = ops + 1
    /\ UNCHANGED <<now, docVars, histVars, bus>>

\* a call that changes the viewport at once
Changed(op, arg, r) ==
    /\ viewport' = r.viewport
    /\ last' = ViewCall(op, arg, r.events, NoArg)
    /\ UNCHANGED <<raf, now, docVars, histVars, bus>>

\* a call that changes nothing
Read(op, arg, ret) ==
    /\ last' = ViewCall(op, arg, <<>>, Given(ret))
    /\ UNCHANGED <<viewport, raf, now, ops, docVars, histVars, bus>>

\* viewport.setTransform(transform, animate)
SetTransform ==
    /\ ops < MaxOps
    /\ \E transform \in Transforms, animated \in BOOLEAN :
         Started("setTransform", [transform |-> transform, animate |-> animated],
                 setTransform(viewport, raf, transform, animated, now))

\* viewport.zoom(delta, center)
Zoom ==
    /\ ops < MaxOps
    /\ \E delta \in Deltas, center \in {Omitted, Given(Anchor)} :
         /\ Changed("zoom", [delta |-> delta, center |-> center],
                    zoom(viewport, delta, center))
         /\ ops' = ops + 1

\* viewport.zoomIn()
ZoomIn ==
    /\ ops < MaxOps
    /\ Changed("zoomIn", [center |-> Omitted], zoomIn(viewport, Omitted))
    /\ ops' = ops + 1

\* viewport.zoomOut(center)
ZoomOut ==
    /\ ops < MaxOps
    /\ Changed("zoomOut", [center |-> Given(Anchor)],
               zoomOut(viewport, Given(Anchor)))
    /\ ops' = ops + 1

\* viewport.resetZoom()
ResetZoom ==
    /\ ops < MaxOps
    /\ Started("resetZoom", [animate |-> TRUE],
               resetZoom(viewport, raf, TRUE, now))

\* viewport.pan(dx, dy)
Pan ==
    /\ ops < MaxOps
    /\ Changed("pan", [dx |-> Anchor.x, dy |-> Anchor.y],
               pan(viewport, Anchor.x, Anchor.y))
    /\ ops' = ops + 1

\* viewport.centerTo(point, false)
CenterTo ==
    /\ ops < MaxOps
    /\ Started("centerTo", [point |-> Anchor, animate |-> FALSE],
               centerTo(viewport, raf, Anchor, FALSE, now))

\* viewport.fitBounds(bounds), viewport.fitBounds(bounds, 50, false)
FitBounds ==
    /\ ops < MaxOps
    /\ \E bounds \in Bounds, animated \in BOOLEAN :
         Started("fitBounds", [bounds |-> bounds, animate |-> animated],
                 fitBounds(viewport, raf, bounds, Num(50), animated, now))

\* viewport.startDrag(point)
StartDrag ==
    /\ ops < MaxOps
    /\ Changed("startDrag", [point |-> Anchor],
               [viewport |-> startDrag(viewport, Anchor), events |-> <<>>])
    /\ ops' = ops + 1

\* viewport.drag(point)
Drag ==
    \E point \in Points :
       /\ Changed("drag", [point |-> point], drag(viewport, point))
       /\ UNCHANGED ops

\* viewport.endDrag()
EndDrag ==
    /\ Changed("endDrag", EmptyObj,
               [viewport |-> endDrag(viewport), events |-> <<>>])
    /\ UNCHANGED ops

\* viewport.dragging
Dragging == Read("dragging", EmptyObj, dragging(viewport))

\* viewport.getTransform()
GetTransform == Read("getTransform", EmptyObj, getTransform(viewport))

\* viewport.screenToWorld(point), of a given point or of one that
\* worldToScreen returned
ScreenToWorld ==
    \E point \in Points \cup {worldToScreen(viewport, p) : p \in Points} :
       Read("screenToWorld", [point |-> point], screenToWorld(viewport, point))

\* viewport.worldToScreen(point), of a given point or of one that
\* screenToWorld returned
WorldToScreen ==
    \E point \in Points \cup {screenToWorld(viewport, p) : p \in Points} :
       Read("worldToScreen", [point |-> point], worldToScreen(viewport, point))

\* viewport.getVisibleBounds()
GetVisibleBounds == Read("getVisibleBounds", EmptyObj, getVisibleBounds(viewport))

\* viewport.destroy()
Destroy ==
    LET r == destroy(viewport, raf)
    IN  /\ viewport' = r.viewport
        /\ raf' = r.raf
        /\ last' = ViewCall("destroy", EmptyObj, <<>>, NoArg)
        /\ UNCHANGED <<now, ops, docVars, histVars, bus>>

\* the browser runs a frame callback it holds
AnimationFrame ==
    /\ raf.issued < MaxFrames
    /\ \E f \in raf.pending :
       LET r == animate(viewport, cancelAnimationFrame(raf, f.id), f.callback, now)
       IN  /\ viewport' = r.viewport
           /\ raf' = r.raf
           /\ last' = Step(f.callback, now, r.events)
           /\ UNCHANGED <<now, ops, docVars, histVars, bus>>

\* the clock moves on while a transition has time left to run: Date.now() is
\* read by the steps of a transition only, and past the end of the transition
\* every reading gives progress 1
Tick ==
    /\ \E f \in raf.pending : now - f.callback.startTime < zoomDuration
    /\ now' = now + FrameGap
    /\ UNCHANGED <<viewport, raf, last, ops, docVars, histVars, bus>>

NextViewport ==
    \/ SetTransform
    \/ ResetZoom
    \/ CenterTo
    \/ FitBounds
    \/ ZoomOut
    \/ Pan
    \/ Destroy
    \/ AnimationFrame
    \/ Tick

SpecViewport == InitViewport /\ [][NextViewport]_vars

\* the coordinate mappings, between calls that change the transform at once
NextCoordinates ==
    \/ Zoom
    \/ ZoomIn
    \/ ZoomOut
    \/ Pan
    \/ GetTransform
    \/ ScreenToWorld
    \/ WorldToScreen
    \/ GetVisibleBounds

SpecCoordinates == InitViewport /\ [][NextCoordinates]_vars

\* drag sessions, among calls that change the transform at once or step by
\* step
NextDrag ==
    \/ StartDrag
    \/ Drag
    \/ EndDrag
    \/ Dragging
    \/ Pan
    \/ ZoomOut
    \/ SetTransform
    \/ AnimationFrame
    \/ Tick

SpecDrag == InitViewport /\ [][NextDrag]_vars

ViewportTypeOK ==
    /\ viewport.animationId \in 0..raf.issued
    /\ Cardinality(raf.pending) <= 1

----------------------------------------------------------------------------
(* Viewport: properties *)

\* C22: the scale of a viewport is within [minScale, maxScale] in every state,
\* whatever options it was constructed with and whatever was called since.
C22_ScaleWithinRange ==
    /\ LessEq(viewport.minScale, viewport.transform.scale)
    /\ LessEq(viewport.transform.scale, viewport.maxScale)

\* a step that is the call op of the viewport
Called(op) == last'.op = op /\ <<viewport, raf, last, ops>> # <<viewport', raf', last', ops'>>

\* the rounding error allowed in a coordinate: sixteen units in the last
\* place of the magnitudes it was computed from
Tolerance == [m |-> 1, e |-> 4 - Precision]

\* a and b are document (scale s) or surface (scale 1) coordinates computed
\* with the translation x: they differ by rounding only
Close(a, b, s, x) ==
    LessEq(Times(Math_abs(Minus(a, b)), s),
           Times(Tolerance, Plus(Times(Math_abs(b), s), Math_abs(x))))

ClosePoints(p, q, s, t) == Close(p.x, q.x, s, t.x) /\ Close(p.y, q.y, s, t.y)

\* a zoom step with an anchor point
AnchoredZoom ==
    /\ Called("zoom") \/ Called("zoomOut")
    /\ last'.arg.center # Omitted

\* C23 (as claimed): zoom(delta, A) leaves screenToWorld(A) equal to what it
\* was, the document point under the anchor A, also when the new scale was
\* clamped.
C23_ZoomKeepsAnchor ==
    [][ AnchoredZoom
        => screenToWorld(viewport', last'.arg.center[1])
              = screenToWorld(viewport, last'.arg.center[1])
      ]_vars

\* C23 (amended): zoom(delta, A) leaves screenToWorld(A) where it was up to
\* the rounding of the arithmetic, also when the new scale was clamped.
C23_ZoomKeepsAnchorRounded ==
    [][ AnchoredZoom
        => ClosePoints(screenToWorld(viewport', last'.arg.center[1]),
                       screenToWorld(viewport, last'.arg.center[1]),
                       viewport'.transform.scale, viewport'.transform)
      ]_vars

\* an anchored zoom changed the scale and the translation, and the new scale
\* was clamped
C23_Witness ==
    /\ last.op \in {"zoom", "zoomOut"}
    /\ last.arg.center # Omitted
    /\ last.events # <<>>
    /\ viewport.transform.scale \in {viewport.minScale, viewport.maxScale}
    /\ viewport.transform.x # Zero

\* C24 (as claimed): for the transform of any reachable state and any point
\* P, screenToWorld(worldToScreen(P)) = P and worldToScreen(screenToWorld(P))
\* = P: the two mappings are exact inverses.
C24_MappingsAreInverses ==
    \A P \in Points :
       /\ screenToWorld(viewport, worldToScreen(viewport, P)) = P
       /\ worldToScreen(viewport, screenToWorld(viewport, P)) = P

\* C24 (amended): for the transform of any reachable state and any point P,
\* screenToWorld(worldToScreen(P)) and worldToScreen(screenToWorld(P)) are P
\* up to the rounding of the arithmetic.
C24_MappingsAreInversesRounded ==
    \A P \in Points :
       /\ ClosePoints(screenToWorld(viewport, worldToScreen(viewport, P)), P,
                      viewport.transform.scale, viewport.transform)
       /\ ClosePoints(worldToScreen(viewport, screenToWorld(viewport, P)), P,
                      One, viewport.transform)

\* screenToWorld was given what worldToScreen returns for a point P, under a
\* transform that moves and scales, and returned a point the rounding moved
\* off P
C24_Witness ==
    /\ last.op = "screenToWorld"
    /\ viewport.transform.scale # One
    /\ viewport.transform.x # Zero
    /\ \E P \in Points :
          /\ last.arg.point = worldToScreen(viewport, P)
          /\ last.arg.point # P
          /\ last.ret # Given(P)

\* the delta of a call of zoom, zoomIn or zoomOut
DeltaOf(call) ==
    IF call.op = "zoom" THEN call.arg.delta
    ELSE IF call.op = "zoomIn" THEN Num(1) ELSE Num(-1)

\* C25: a zoom whose clamped new scale equals the current scale changes
\* nothing of the viewport and publishes nothing; any other zoom sets the
\* scale to clamp(scale * (1 + delta * zoomSpeed), minScale, maxScale) and
\* publishes zoom-changed with it.
C25_ZoomNoOpOrPublishes ==
    [][ (Called("zoom") \/ Called("zoomIn") \/ Called("zoomOut"))
        => LET factor == Plus(One, Times(DeltaOf(last'), viewport.zoomSpeed))
               newScale == clamp(Times(viewport.transform.scale, factor),
                                 viewport.minScale, viewport.maxScale)
           IN  IF newScale = viewport.transform.scale
               THEN /\ viewport' = viewport
                    /\ last'.events = <<>>
               ELSE /\ viewport'.transform.scale = newScale
                    /\ \E i \in DOMAIN last'.events :
                          last'.events[i] = Emit(ZOOM_CHANGE, newScale)
      ]_vars

\* zoom(delta, A) with delta # 0 was called at maxScale and did nothing
C25_Witness ==
    /\ last.op = "zoom"
    /\ last.arg.delta # Zero
    /\ last.arg.center # Omitted
    /\ last.events = <<>>
    /\ viewport.transform.scale = viewport.maxScale

\* C26: startDrag(p0) opens a session that remembers p0 and the translation
\* T0 of that moment, and nothing but the next startDrag changes what is
\* remembered; in a session drag(p) sets the translation to T0 + (p - p0),
\* whatever was dragged before, and keeps the scale; with no session drag(p)
\* changes nothing and publishes nothing; dragging is true from startDrag to
\* the next endDrag.
C26_DragFollowsPointer ==
    [][ /\ Called("startDrag")
           => /\ viewport'.dragStart = last'.arg.point
              /\ viewport'.dragOffset = Translation(viewport.transform)
              /\ viewport'.transform = viewport.transform
              /\ dragging(viewport')
        /\ ~Called("startDrag")
           => /\ viewport'.dragStart = viewport.dragStart
              /\ viewport'.dragOffset = viewport.dragOffset
        /\ (Called("drag") /\ dragging(viewport))
           => /\ viewport'.transform.x
                    = Plus(viewport.dragOffset.x,
                           Minus(last'.arg.point.x, viewport.dragStart.x))
              /\ viewport'.transform.y
                    = Plus(viewport.dragOffset.y,
                           Minus(last'.arg.point.y, viewport.dragStart.y))
              /\ viewport'.transform.scale = viewport.transform.scale
        /\ (Called("drag") /\ ~dragging(viewport))
           => /\ viewport' = viewport
              /\ last'.events = <<>>
        /\ Called("endDrag") => ~dragging(viewport')
        /\ ~(Called("startDrag") \/ Called("endDrag"))
           => dragging(viewport') = dragging(viewport)
        /\ Called("dragging") => last'.ret = Given(dragging(viewport))
      ]_vars

\* in a session whose translation has moved since startDrag, drag(p) with p
\* another point than the session's first put the translation at T0 + (p - p0)
C26_Witness ==
    /\ last.op = "drag"
    /\ dragging(viewport)
    /\ last.arg.point # viewport.dragStart
    /\ Translation(viewport.transform) # viewport.dragOffset
    /\ viewport.dragOffset.x # Zero
    /\ last.events = << Emit(PAN_CHANGE, Translation(viewport.transform)) >>

\* a step that starts a transition
Starts == raf'.started = raf.started + 1

BothPublished(call, transform) ==
    /\ \E i \in DOMAIN call.events :
          call.events[i] = Emit(ZOOM_CHANGE, transform.scale)
    /\ \E i \in DOMAIN call.events :
          call.events[i] = Emit(PAN_CHANGE, Translation(transform))

\* C28: every step of a transition publishes zoom-changed and pan-changed,
\* and the step with progress 1, which a transition that is not canceled
\* comes to when frames keep firing and the clock advances, leaves the
\* transform equal to the target of the transition, no callback scheduled
\* and animationId null.
C28_LastStepReachesTarget ==
    [][ Called("animate")
        => /\ BothPublished(last', viewport'.transform)
           /\ last'.progress = One
              => /\ \A f \in raf.pending :
                       viewport'.transform = f.callback.target
                 /\ raf'.pending = {}
                 /\ viewport'.animationId = Null
      ]_vars

\* C29: from one applied step of a transition to the next the progress
\* strictly increases, and it is always within [0, 1].  (`last` is the
\* previous step when no other call came in between; the call that starts a
\* transition applies its first step, with progress 0.)
C29_ProgressStrictlyIncreases ==
    [][ Called("animate")
        => /\ LessEq(Zero, last'.progress)
           /\ LessEq(last'.progress, One)
           /\ last.transition = last'.transition
              => Less(last.progress, last'.progress)
      ]_vars

\* the transform the claim gives for fitBounds(bounds, padding): the scale
\* clamp(min((W - 2*padding)/boundsWidth, (H - 2*padding)/boundsHeight),
\* minScale, maxScale) and the translation that puts the center of the bounds
\* at the center (W/2, H/2) of the surface
Fitted(v, bounds, padding) ==
    LET W == Surface.width
        H == Surface.height
        scale == clamp(Math_min(Over(Minus(W, Times(Num(2), padding)),
                                     Minus(bounds.maxX, bounds.minX)),
                                Over(Minus(H, Times(Num(2), padding)),
                                     Minus(bounds.maxY, bounds.minY))),
                       v.minScale, v.maxScale)
        center == Point(Over(Plus(bounds.minX, bounds.maxX), Num(2)),
                        Over(Plus(bounds.minY, bounds.maxY), Num(2)))
    IN  [x |-> Minus(Over(W, Num(2)), Times(center.x, scale)),
         y |-> Minus(Over(H, Num(2)), Times(center.y, scale)),
         scale |-> scale]

\* the example: bounds (0,0)-(1000,500) on the 800x600 surface, padding 50,
\* minScale 0.1 and maxScale 5
IsExample(v, bounds) ==
    /\ v.minScale = Dec(1, 10)
    /\ v.maxScale = Num(5)
    /\ bounds = [minX |-> Zero, minY |-> Zero,
                 maxX |-> Num(1000), maxY |-> Num(500)]

\* C30: fitBounds(bounds, padding) leaves the transform Fitted(bounds,
\* padding), at once when animate is false and as the transform after the
\* last step of the transition when animate is true; in the example that is
\* scale 0.7 and translation (50, 125).  (`last` is still the call of
\* fitBounds at the last step when no other call or step came in between.)
C30_FitBoundsResult ==
    [][ /\ (Called("fitBounds") /\ ~last'.arg.animate)
           => viewport'.transform = Fitted(viewport, last'.arg.bounds, Num(50))
        /\ ( /\ Called("animate")
             /\ last'.progress = One
             /\ last.op = "fitBounds"
             /\ last.transition = last'.transition )
           => viewport'.transform = Fitted(viewport, last.arg.bounds, Num(50))
        /\ (Called("fitBounds") /\ IsExample(viewport, last'.arg.bounds))
           => Fitted(viewport, last'.arg.bounds, Num(50))
                 = [x |-> Num(50), y |-> Num(125), scale |-> Dec(7, 10)]
      ]_vars

----------------------------------------------------------------------------
(* The capacity of the history *)

\* the capacities the history is constructed with here, none included
Capacities == {0, 1, 2}

\* history = new CommandHistory(maxStackSize), over a document of one node
InitCapacity ==
    /\ LET r == Construct(<<>>, 0, [id |-> "root", text |-> "t0"])
       IN  /\ heap = r.heap
           /\ idCounter = r.counter
    /\ \E m \in Capacities :
         history = [undoStack |-> <<>>, redoStack |-> <<>>,
                    maxStackSize |-> m, isExecuting |-> FALSE]
    /\ commands = <<>>
    /\ frames = <<>>
    /\ track = [docs |-> <<>>, failed |-> FALSE]
    /\ last = HistCall("new", Null, "return", NoArg)
    /\ ops = 0
    /\ json = <<>>
    /\ reads = <<>>
    /\ NoViewport

\* history.clear(), called by a command that is running: clear has no guard
ClearRunning ==
    /\ frames # <<>>
    /\ history' = clear(history)
    /\ last' = HistCall("clear", Null, "call", NoArg)
    /\ UNCHANGED <<heap, idCounter, commands, frames, track, ops, json, reads, viewVars>>

NextCapacity ==
    \/ ExecuteSetText
    \/ ExecuteAddChild
    \/ ExecuteReturns
    \/ ExecuteThrows
    \/ Undo
    \/ UndoReturns
    \/ UndoThrows
    \/ Redo
    \/ RedoReturns
    \/ RedoThrows
    \/ Clear
    \/ ClearRunning

SpecCapacity == InitCapacity /\ [][NextCapacity]_vars

\* C33: whenever no command is running, the undo stack and the redo stack
\* hold no more than maxStackSize commands together, whatever execute, undo,
\* redo and clear calls were made, and a redo that returned left no more
\* than maxStackSize commands on the undo stack.
C33_StacksWithinCapacity ==
    ~history.isExecuting =>
        /\ Len(history.undoStack) + Len(history.redoStack) <= history.maxStackSize
        /\ Did(last, "redo", "return") =>
              Len(history.undoStack) <= history.maxStackSize

\* a redo pushed a command back onto an undo stack that is full again
C33_Witness ==
    /\ ~history.isExecuting
    /\ Did(last, "redo", "return")
    /\ history.maxStackSize = 2
    /\ Len(history.undoStack) = 2
    /\ Len(commands) = 3

\* C34: a history.execute(c) call that got past the guard invokes
\* c.execute() once and, c.execute() having returned, ends by returning with
\* c recorded: c is the new top of the undo stack, or the previous top
\* accepted the merge and is still the top. This is to hold for every
\* command the Command interface accepts, the plain ones included.
C34_ExecutedCommandRecorded ==
    [][ (frames # <<>> /\ Top(frames).op = "execute" /\ frames' = Front(frames))
        => LET c == Top(frames).command
           IN  /\ heap' = commandExecute(commands, heap, c).heap
               /\ Did(last', "execute", "return")
               /\ history'.undoStack # <<>>
               /\ \/ Top(history'.undoStack) = c
                  \/ /\ history'.undoStack = history.undoStack
                     /\ canMerge(commands', Top(history.undoStack), c)
      ]_vars

\* what a subscriber holds that keeps the payload of the latest notification
\* of the name, having held `held` before the call
Tracked(events, name, held) ==
    LET at == {i \in DOMAIN events : events[i].name = name}
    IN  IF at = {} THEN held
        ELSE events[CHOOSE i \in at : \A j \in at : j <= i].payload

\* C35: every step of the viewport that changes the translation publishes
\* pan-changed with the new translation and every step that changes the
\* scale publishes zoom-changed with the new scale, so that a subscriber
\* that held the transform before the step holds it after the step.
C35_ChangesArePublished ==
    [][ /\ Tracked(last'.events, PAN_CHANGE, Translation(viewport.transform))
              = Translation(viewport'.transform)
        /\ Tracked(last'.events, ZOOM_CHANGE, viewport.transform.scale)
              = viewport'.transform.scale
      ]_<<viewport, last>>

\* the call changed the transform at once: an immediate setTransform, a pan,
\* a zoom that was not a no-op, or a drag during a drag session
Immediate(call) ==
    /\ call.op \in {"setTransform", "pan", "zoomOut", "drag"}
    /\ call.events # <<>>
    /\ call.op = "setTransform" => ~call.arg.animate

\* the parts of the transform the call assigned
SetTranslation(call) ==
    \/ call.op \in {"setTransform", "pan", "drag"}
    \/ call.op = "zoomOut" /\ call.arg.center # Omitted
SetScale(call) == call.op \in {"setTransform", "zoomOut"}

\* C36: a step of a transition that was in flight when an immediate change
\* was made leaves the translation and the scale that the immediate change
\* set as they are.
C36_ImmediateChangeStays ==
    [][ (Immediate(last) /\ Called("animate"))
        => /\ SetTranslation(last) =>
                 Translation(viewport'.transform) = Translation(viewport.transform)
           /\ SetScale(last) =>
                 viewport'.transform.scale = viewport.transform.scale
      ]_vars

----------------------------------------------------------------------------
(* Searching a tree: MindNode.find and helpers.findNode *)

\* A predicate on nodes is the set of the texts it accepts:
\* node => texts.includes(node.text).

\* this.find(predicate): the reference found, Null when there is none
RECURSIVE find(_, _, _)
RECURSIVE findInChildren(_, _, _, _)
find(h, this, predicate) ==
    IF h[this].text \in predicate
    THEN this
    ELSE findInChildren(h, h[this].children, 1, predicate)

\* for (const child of this.children) { found = child.find(predicate);
\*                                      if (found) return found }
\* return null
findInChildren(h, kids, i, predicate) ==
    IF i > Len(kids) THEN Null
    ELSE LET found == find(h, kids[i], predicate)
         IN  IF found # Null THEN found
             ELSE findInChildren(h, kids, i + 1, predicate)

\* traverseTree(node, callback) with the callback findNode passes, which
\* assigns `result` and returns false on a match: what `result` holds
\* afterwards, <<>> standing for null. A callback that returns false ends the
\* call for this node, and the loop over the siblings goes on in the caller.
RECURSIVE traverseTree(_, _, _)
RECURSIVE traverseChildren(_, _, _, _)
traverseTree(node, predicate, result) ==
    IF node.text \in predicate
    THEN Given(node)
    ELSE IF Has(node, "children")
         THEN traverseChildren(node.children, 1, predicate, result)
         ELSE result

\* for (const child of node.children) traverseTree(child, callback, ...)
traverseChildren(kids, i, predicate, result) ==
    IF i > Len(kids) THEN result
    ELSE traverseChildren(kids, i + 1, predicate,
                          traverseTree(kids[i], predicate, result))

\* findNode(root, predicate): <<>> for null
findNode(root, predicate) == traverseTree(root, predicate, Omitted)

\* the texts of the nodes, and the predicates searched with: one that no
\* node satisfies among them
Texts == {"t", "u"}
Predicates == {{"t"}, {"u"}, {"z"}}

\* a child with or without a child of its own
FindKids ==
    {[text |-> t] : t \in Texts}
        \cup {[text |-> t, children |-> <<[text |-> u]>>] : t \in Texts, u \in Texts}

\* trees of up to two branches under a root
FindData ==
    { [text |-> t, children |-> kids] :
        t \in Texts,
        kids \in {<<k>> : k \in FindKids}
                     \cup {<<k1, k2>> : k1 \in FindKids, k2 \in FindKids} }

\* root = new MindNode(data)
InitFind ==
    /\ \E d \in FindData :
         LET r == Construct(<<>>, 0, d)
         IN  /\ heap = r.heap
             /\ idCounter = r.counter
             /\ last = Call("new", r.ref, NoArg, Omitted, "returns", r.ref)
    /\ ops = 0
    /\ json = <<>>
    /\ reads = <<>>
    /\ NoHistory
    /\ NoViewport

\* root.find(predicate)
Find ==
    /\ \E predicate \in Predicates :
         LET found == find(heap, Original, predicate)
         IN  last' = Call("find", Original, predicate, Omitted, "returns",
                          IF found = Null THEN Omitted ELSE Given(found))
    /\ UNCHANGED <<heap, idCounter, ops, json, reads>>
    /\ UNCHANGED histVars
    /\ UNCHANGED viewVars

\* findNode(data, predicate), with data the record root.toJSON() returned
FindNode ==
    /\ json # <<>>
    /\ \E predicate \in Predicates :
         last' = Call("findNode", Original, predicate, Omitted, "returns",
                      findNode(json[Len(json)], predicate))
    /\ UNCHANGED <<heap, idCounter, ops, json, reads>>
    /\ UNCHANGED histVars
    /\ UNCHANGED viewVars

NextFind == ToJSON \/ Find \/ FindNode

SpecFind == InitFind /\ [][NextFind]_vars

\* C38: findNode(data, pred) returns the record of the node that
\* root.find(pred) returns, data being the record of the tree under root, and
\* null when find returns null: the first node in pre-order that satisfies
\* pred, also when nodes of several branches satisfy it.
C38_FindNodeIsFind ==
    last.op = "findNode" =>
        LET found == find(heap, Original, last.arg)
        IN  IF found = Null
            THEN last.ret = Omitted
            ELSE /\ last.ret # Omitted
                 /\ last.ret[1].id = heap[found].id

----------------------------------------------------------------------------
(* The bus in use *)

\* the most handlers registered at a time, wrappers included
MaxHandlers == 2

\* the event names, the functions and the data the callers use
EventNames == {"a", "b"}
Functions ==
    {Function(fn) : fn \in {"quiet", "thrower", "remover", "adder", "emitter"}}
Payloads == {"d"}

\* the last call on the bus: the arguments of an emit or of a read, the
\* functions called during it in order, the exceptions logged, and what it
\* returned
BusCall(op, event, handler, data, W, ret) ==
    [op |-> op, event |-> event, handler |-> handler, data |-> data,
     calls |-> W.calls, errors |-> W.errors, removed |-> W.removed, ret |-> ret]

\* a call that calls no function
NoCalls == [calls |-> <<>>, errors |-> 0, removed |-> {}]

\* bus = new EventBus()
InitEventBus ==
    /\ bus = NewEventBus
    /\ last = BusCall("new", Omitted, Omitted, Omitted, NoCalls, NoArg)
    /\ ops = 0
    /\ heap = <<>>
    /\ idCounter = 0
    /\ json = <<>>
    /\ reads = <<>>
    /\ viewport = <<>>
    /\ raf = <<>>
    /\ now = 0
    /\ NoHistory

BusUnchanged == UNCHANGED <<viewport, raf, now, ops, docVars, histVars>>

\* bus.on(event, handler)
On ==
    /\ listenerCount(bus.events, Omitted) < MaxHandlers
    /\ \E event \in EventNames, handler \in Functions :
         /\ bus' = [bus EXCEPT !.events = on(@, event, handler)]
         /\ last' = BusCall("on", Omitted, Omitted, Omitted, NoCalls, NoArg)
    /\ BusUnchanged

\* bus.once(event, handler)
Once ==
    /\ listenerCount(bus.events, Omitted) < MaxHandlers
    /\ \E event \in EventNames, handler \in Functions :
         /\ bus' = [bus EXCEPT !.events = once(@, event, handler)]
         /\ last' = BusCall("once", Omitted, Omitted, Omitted, NoCalls, NoArg)
    /\ BusUnchanged

\* bus.off(event, handler) and bus.off(event)
Off ==
    /\ \E event \in EventNames, handler \in {Omitted} \cup {Given(f) : f \in Functions} :
         /\ bus' = [bus EXCEPT !.events = Compact(off(@, event, handler))]
         /\ last' = BusCall("off", Omitted, Omitted, Omitted, NoCalls, NoArg)
    /\ BusUnchanged

\* bus.emit(event, data): the handlers run inside the call
EmitEvent ==
    /\ \E event \in EventNames, data \in Payloads :
         LET W == emit(Dispatch(bus, viewport, raf, now), event, data, 0)
         IN  /\ bus' = Settled(W)
             /\ last' = BusCall("emit", Given(event), Omitted, Given(data), W, NoArg)
    /\ BusUnchanged

\* bus.clear()
ClearEvents ==
    /\ bus' = [bus EXCEPT !.events = clearEvents(@)]
    /\ last' = BusCall("clear", Omitted, Omitted, Omitted, NoCalls, NoArg)
    /\ BusUnchanged

\* bus.listenerCount(event) and bus.listenerCount()
ListenerCount ==
    /\ \E event \in {Omitted} \cup {Given(e) : e \in EventNames} :
         last' = BusCall("listenerCount", event, Omitted, Omitted, NoCalls,
                         Given(listenerCount(bus.events, event)))
    /\ UNCHANGED bus
    /\ BusUnchanged

NextEventBus ==
    \/ On
    \/ Once
    \/ Off
    \/ EmitEvent
    \/ ClearEvents
    \/ ListenerCount

SpecEventBus == InitEventBus /\ [][NextEventBus]_vars

----------------------------------------------------------------------------
(* EventBus: properties *)

\* the handlers registered for an event
Registered(events, event) ==
    IF event \in DOMAIN events
    THEN {events[event][i] : i \in DOMAIN events[event]}
    ELSE {}

\* the calls that the emit the caller made, and no emit nested in it, made
\* of handler h
Direct(call, h) ==
    {i \in DOMAIN call.calls :
        /\ call.calls[i].handler = h
        /\ call.calls[i].by = Function("emit")
        /\ call.calls[i].depth = 0}

\* a step that is a call of emit
Emitted == last'.op = "emit" /\ <<bus, last>> # <<bus', last'>>

\* called with the arguments of the emit
Delivered(call, i) ==
    /\ call.calls[i].event = call.event[1]
    /\ call.calls[i].data = call.data[1]

Wrapped(call, w) == {i \in DOMAIN call.calls : call.calls[i].by = w}

\* C32: an emit of an event calls the function of every one-shot handler
\* registered for the event exactly once, and none of these handlers is
\* registered (and counted by listenerCount) when the emit has returned, so
\* that no later emit calls the function again; this whether the function
\* returns, throws or emits the event itself.
C32_OnceHandlersRunOnce ==
    [][ Emitted =>
        \A w \in Registered(bus.events, last'.event[1]) :
           w.fn = "once" =>
              /\ Cardinality(Wrapped(last', w)) = 1
              /\ w \notin Registered(bus'.events, last'.event[1])
              /\ listenerCount(bus'.events, last'.event)
                    <= Cardinality(Registered(bus'.events, last'.event[1]) \ {w})
      ]_vars

----------------------------------------------------------------------------
(* The viewport with a subscriber that calls it back *)

\* viewport = new Viewport(container, bus) on a new bus
InitSubscriber ==
    /\ viewport = NewViewport(EmptyObj)
    /\ last = ViewCall("new", EmptyObj, <<>>, NoArg)
    /\ raf = NoFrames
    /\ now = 0
    /\ bus = NewEventBus
    /\ ops = 0
    /\ heap = <<>>
    /\ idCounter = 0
    /\ json = <<>>
    /\ reads = <<>>
    /\ NoHistory

\* the viewport, the frames and the bus after a call that ran on W
Settle(W) ==
    /\ viewport' = W.viewport
    /\ raf' = W.raf
    /\ bus' = Settled(W)

\* bus.on('zoom:change', restarter) or bus.on('pan:change', restarter)
Subscribe ==
    /\ \E event \in {ZOOM_CHANGE, PAN_CHANGE} :
         /\ bus' = [bus EXCEPT !.events = on(@, event, Function("restarter"))]
         /\ last' = ViewCall("on", [event |-> event], <<>>, NoArg)
    /\ UNCHANGED <<viewport, raf, now, ops, docVars, histVars>>

\* viewport.setTransform(transform, animate), the handlers running inside
\* the call
SetTransformHeard ==
    /\ ops < MaxOps
    /\ \E transform \in Transforms, animated \in BOOLEAN :
         LET W == Viewport_setTransform(Dispatch(bus, viewport, raf, now),
                                        transform, animated, 0)
         IN  /\ Settle(W)
             /\ last' = ViewCall("setTransform",
                                 [transform |-> transform, animate |-> animated],
                                 W.calls, NoArg)
    /\ ops' = ops + 1
    /\ UNCHANGED <<now, docVars, histVars>>

\* the browser runs a frame callback it holds, the handlers running inside
\* the step
AnimationFrameHeard ==
    /\ raf.issued < MaxFrames
    /\ \E f \in raf.pending :
         LET W == Viewport_animate(
                      Dispatch(bus, viewport, cancelAnimationFrame(raf, f.id), now),
                      f.callback, 0)
         IN  /\ Settle(W)
             /\ last' = Step(f.callback, now, W.calls)
    /\ UNCHANGED <<now, ops, docVars, histVars>>

NextSubscriber ==
    \/ Subscribe
    \/ SetTransformHeard
    \/ AnimationFrameHeard
    \/ Tick
    \/ Destroy

SpecSubscriber == InitSubscriber /\ [][NextSubscriber]_vars

\* C37: at most one frame callback is scheduled, and animationId is the id
\* of the scheduled callback when there is one and null when there is none,
\* so that cancelling animationId leaves no callback scheduled; also when a
\* handler of zoom-changed or pan-changed that a step called starts a
\* transition.
C37_OneStepScheduled ==
    /\ Cardinality(raf.pending) <= 1
    /\ viewport.animationId = Null <=> raf.pending = {}
    /\ \A f \in raf.pending : f.id = viewport.animationId
    /\ destroy(viewport, raf).raf.pending = {}

====
